---- MODULE Spec2Model ----
(***************************************************************************)
(* A model of the node supervisor of src/node/Node.cpp: Node::Node,        *)
(* Node::run (startup sequence and main loop), _NodeImpl::terminateBecause,*)
(* Node::terminate and Node::~Node.                                        *)
(*                                                                         *)
(* Several node processes may be started on the same home directory; they  *)
(* share its files and the host's UDP ports.  Each process has its own     *)
(* _NodeImpl and its own locals of run().  run() is cut into steps at the  *)
(* places where another process or thread can observe or change what the   *)
(* step reads: every file read and write, every bind, every stage of the   *)
(* main loop, the two suspension points.                                   *)
(*                                                                         *)
(* Time is the value of Utils::now().  It passes only while a thread is    *)
(* suspended (Thread::sleep, Condition::wait); a host suspend makes it     *)
(* jump while the loop waits.                                              *)
(***************************************************************************)
EXTENDS Integers, Sequences, FiniteSets, TLC

(***************************************************************************)
(* Bounds of the model.                                                    *)
(***************************************************************************)
\* Number of bind attempts of LocalClient's constructor (5000 in the source).
BindAttempts == 2
\* Number of calls of LocalClient::send.
MaxSends == 2
\* Number of packets that arrive at the client's socket.
MaxPackets == 2
\* The largest value rand() returns.
MaxRand == 2
\* Number of node processes started on the one home directory.
NumNodes == 2
\* Number of peers known to the topology.
NumPeers == 2
\* Number of networks that may be joined.
NumNetworks == 1
\* The clock runs from Epoch to Epoch + Horizon.
Horizon == 7
\* Width of the window of UDP ports scanned at startup (128 in the source).
PortWindow == 2

Nodes == 1..NumNodes
Peers == 1..NumPeers
Networks == 1..NumNetworks

(***************************************************************************)
(* Program constants.  Their values are set in Constants.hpp; here they    *)
(* are scaled down to a few clock units each.                              *)
(***************************************************************************)
ZT_MIN_SERVICE_LOOP_INTERVAL == 2
ZT_SLEEP_WAKE_DETECTION_THRESHOLD == 2
ZT_SLEEP_WAKE_SETTLE_TIME == 1
ZT_NETWORK_FINGERPRINT_CHECK_DELAY == 3
ZT_MULTICAST_LOCAL_POLL_PERIOD == 2
ZT_MULTICAST_LIKE_ANNOUNCE_ALL_PERIOD == 4
ZT_PING_CHECK_DELAY == 4
ZT_PEER_DIRECT_PING_DELAY == 3
ZT_DB_CLEAN_PERIOD == 5

\* Utils::now() at the start of a behaviour: milliseconds since 1970, so
\* larger than every period above.
Epoch == 8

\* Node::ReasonForTermination
NODE_RUNNING == "NODE_RUNNING"
NODE_NORMAL_TERMINATION == "NODE_NORMAL_TERMINATION"
NODE_UNRECOVERABLE_ERROR == "NODE_UNRECOVERABLE_ERROR"

\* The reason strings of run().
RS_None == ""
RS_WritePublic == "could not write identity.public (home path not writable?)"
RS_WriteSecret == "could not write identity.secret (home path not writable?)"
RS_WriteToken == "could not write authtoken.secret (home path not writable?)"
RS_AnotherInstance == "another instance of ZeroTier One appears to be running, or local control UDP port cannot be bound"
RS_NoUdpPort == "could not bind any local UDP ports"
RS_BadAlloc == "memory allocation failure"
RS_What == "exc.what()"
RS_UnknownInit == "unknown exception during initialization"
RS_OuterLoop == "unexpected exception during outer main I/O loop"
RS_Normal == "normal termination"

\* What a call may throw; "none" is a normal return.
Exceptions == {"bad_alloc", "runtime_error", "unknown"}
MayThrow == {"none"} \cup Exceptions

(***************************************************************************)
(* Identity and its string forms.  An identity is an address-bearing key   *)
(* pair; toString(true) carries the private key, toString(false) only the  *)
(* public part.  A file holds a string, or does not exist.                 *)
(***************************************************************************)
NoIdentity == [id |-> 0, priv |-> FALSE]
Absent == [kind |-> "absent", id |-> 0, priv |-> FALSE]
Garbage == [kind |-> "garbage", id |-> 0, priv |-> FALSE]

\* Identity::toString(includePrivate)
IdentityToString(ident, includePrivate) ==
    [kind |-> "identity", id |-> ident.id, priv |-> (includePrivate /\ ident.priv)]

\* Identity::fromString(s): whether s parses
IdentityParses(s) == s.kind = "identity"

\* Identity::fromString(s): the identity parsed
IdentityFromString(s) == [id |-> s.id, priv |-> s.priv]

\* Identity::generate() in process n: a fresh key pair, unlike any other
IdentityGenerate(n) == [id |-> 2 + n, priv |-> TRUE]

\* Utils::readFile(path, buf): whether the file could be read
ReadFileOk(f) == f.kind # "absent"

\* An identity the home directory may hold before the first start.
OldIdentity == [id |-> 1, priv |-> TRUE]
StaleIdentity == [id |-> 2, priv |-> TRUE]

\* The auth tokens: 0 is no file; a generated token is one of 24 random
\* characters, here one of two values per process.
NoToken == 0
TokenGenerate(n) == {10 * n + 1, 10 * n + 2}

VARIABLES
    \* _NodeImpl, per process
    started, running, terminateNow, reasonForTermination, reasonForTerminationStr,
    \* RuntimeEnvironment and locals of run()'s startup, per process
    pc, identity, idser, configAuthToken, boundPort, netconfService,
    \* locals of run()'s main loop, per process
    L,
    \* the subsystem calls made by the current iteration of the main loop
    tick,
    \* the thread calling terminate(), per process: where it is, and the time
    \* of its first call made while run() was in the main loop (-1: none yet)
    tpc, tcalled,
    \* the home directory
    identitySecret, identityPublic, authtokenSecret, netconfFile,
    \* the host: owner of the control port, UDP ports taken, fingerprint, clock
    controlPort, udpTaken, sysFingerprint, clock,
    \* the topology: whether this node is a supernode, the peers it knows
    amSupernode, peers,
    \* a thread calling Node::reasonForTermination(), per process: where it
    \* is, and what its last call has returned ("none": no call yet)
    opc, seen,
    \* Node::LocalClient and its _LocalClientImpl: where the thread that owns
    \* the client is, the _impl object, its socket, the holder of inUseLock,
    \* the key, the bind attempts made, whether ~UdpSocket waits for the
    \* socket's thread
    cpc, cImpl, cSock, cLock, cKey, cTries, sockJoins,
    \* the socket's thread in _CBlocalClientHandler: where it is, the packet
    \* it handles, the lines it has passed to the result handler and those
    \* it has still to pass
    hpc, hpkt, hdone, hleft,
    \* the loopback: requests on their way to the node, packets that have
    \* arrived at the client's socket
    reqs, inbox,
    \* what send() has returned so far and whether its request went out; the
    \* invocations of the result handler so far; the packets made so far;
    \* whether the result handler was invoked after ~LocalClient had taken
    \* the lock; whether the socket's thread has used freed memory
    sends, calls, made, late, uaf,
    \* the netconf service and _netconfServiceMessageHandler: where the
    \* service's thread is, the renv pointer and the message it passes, the
    \* packets the handler has given to Switch::send for that message, and
    \* whether the handler has logged an exception
    bpc, renv, msg, outp, logged

implVars == <<started, running, terminateNow, reasonForTermination, reasonForTerminationStr>>
startVars == <<identity, idser, configAuthToken, boundPort, netconfService>>
fileVars == <<identitySecret, identityPublic, authtokenSecret, netconfFile>>
hostVars == <<controlPort, udpTaken, sysFingerprint, clock, amSupernode, peers>>
nodeVars == <<implVars, pc, startVars, L, tick, tpc, tcalled, fileVars, hostVars>>
obsVars == <<opc, seen>>
clientVars == <<cpc, cImpl, cSock, cLock, cKey, cTries, sockJoins,
                hpc, hpkt, hdone, hleft, reqs, inbox, sends, calls, made, late, uaf>>
bridgeVars == <<bpc, renv, msg, outp, logged>>
vars == <<nodeVars, obsVars, clientVars, bridgeVars>>
\* What the steps of a node, of the thread that reads the reason, of the
\* local client and of the netconf bridge leave alone.
besideNode == <<obsVars, clientVars, bridgeVars>>
besideObs == <<nodeVars, clientVars, bridgeVars>>
besideClient == <<nodeVars, obsVars, bridgeVars>>
besideBridge == <<nodeVars, obsVars, clientVars>>


(***************************************************************************)
(* The locals of the main loop before the loop is entered, and the record  *)
(* of the subsystem calls of one iteration.                                *)
(***************************************************************************)
NoLocals ==
    [now |-> 0, pingAll |-> FALSE, lastPingCheck |-> 0, lastClean |-> 0,
     lastNetworkFingerprintCheck |-> 0, lastAutoconfigureCheck |-> 0,
     networkConfigurationFingerprint |-> 0, lastMulticastCheck |-> 0,
     lastMulticastAnnounceAll |-> 0, lastDelayDelta |-> 0,
     delay |-> 0, start |-> 0,
     \* the condition was signalled while this thread waits on it
     signalled |-> FALSE,
     \* the sleep/wake detection has reacted to the present value of
     \* lastDelayDelta
     deltaActed |-> FALSE]

NoCalls ==
    [settled |-> FALSE, fpChecked |-> FALSE, fpChanged |-> FALSE, whacked |-> FALSE,
     mcChecked |-> FALSE, announceAll |-> FALSE, toAnnounce |-> {}, announced |-> FALSE,
     pingRan |-> FALSE, pingAll |-> FALSE, active |-> {}, hello |-> {}, opener |-> {},
     \* what the collectors of the ping cycle have found: the supernode peers
     \* with their lastDirectSend(), the peers that need a ping, the peers
     \* that need a firewall opener
     sns |-> {}, needPing |-> {}, needFirewallOpener |-> {},
     \* the handler of the ping cycle has caught an exception
     caught |-> FALSE,
     cleaned |-> FALSE]

\* No thread has called reasonForTermination() yet.
InitObs ==
    /\ opc = [n \in Nodes |-> "idle"]
    /\ seen = [n \in Nodes |-> "none"]

\* The key of the node (SHA-256 of its auth token), another key, and no key.
NodeKey == 1
WrongKey == 2

\* No packet in the hands of the socket's thread.
NoPacket == [conv |-> 0, key |-> 0, lines |-> <<>>]

\* The netconf service has passed no message yet.
NoMessage == [k \in {} |-> ""]
InitBridge ==
    /\ bpc = "idle"
    /\ renv = TRUE
    /\ msg = NoMessage
    /\ outp = <<>>
    /\ logged = FALSE

\* No LocalClient has been constructed yet.
InitClient ==
    /\ cpc = "none"
    /\ cImpl = "null"
    /\ cSock = "none"
    /\ cLock = "free"
    /\ cKey = 0
    /\ cTries = 0
    /\ sockJoins = FALSE
    /\ hpc = "idle"
    /\ hpkt = NoPacket
    /\ hdone = <<>>
    /\ hleft = <<>>
    /\ reqs = {}
    /\ inbox = {}
    /\ sends = <<>>
    /\ calls = <<>>
    /\ made = 0
    /\ late = FALSE
    /\ uaf = FALSE

\* Node::Node for every process.
InitNodes ==
    /\ started = [n \in Nodes |-> FALSE]
    /\ running = [n \in Nodes |-> FALSE]
    /\ terminateNow = [n \in Nodes |-> FALSE]
    /\ reasonForTermination = [n \in Nodes |-> NODE_RUNNING]
    /\ reasonForTerminationStr = [n \in Nodes |-> RS_None]
    /\ pc = [n \in Nodes |-> "constructed"]
    /\ identity = [n \in Nodes |-> NoIdentity]
    /\ idser = [n \in Nodes |-> Absent]
    /\ configAuthToken = [n \in Nodes |-> NoToken]
    /\ boundPort = [n \in Nodes |-> -1]
    /\ netconfService = [n \in Nodes |-> FALSE]
    /\ L = [n \in Nodes |-> NoLocals]
    /\ tick = [n \in Nodes |-> NoCalls]
    /\ tpc = [n \in Nodes |-> "idle"]
    /\ tcalled = [n \in Nodes |-> -1]

\* The host before any process has bound a port; a topology that knows no
\* peer yet.
InitHost ==
    /\ controlPort = 0
    /\ sysFingerprint = 0
    /\ clock = Epoch
    /\ amSupernode = FALSE
    /\ peers = {}

\* A fresh home directory, or the one an earlier run has left; the UDP ports
\* of the window are free.
Init ==
    /\ InitNodes
    /\ InitHost
    /\ InitObs
    /\ InitClient
    /\ InitBridge
    /\ \/ /\ identitySecret = Absent
          /\ identityPublic = Absent
          /\ authtokenSecret = NoToken
       \/ /\ identitySecret = IdentityToString(OldIdentity, TRUE)
          /\ identityPublic = IdentityToString(OldIdentity, FALSE)
          /\ authtokenSecret = 1
    /\ netconfFile = FALSE
    /\ udpTaken = {}

\* Any content of the home directory; the UDP ports of the window free, or
\* all taken by other programs.
InitAnyHome ==
    /\ InitNodes
    /\ InitHost
    /\ InitObs
    /\ InitClient
    /\ InitBridge
    /\ identitySecret \in {Absent, Garbage, IdentityToString(OldIdentity, TRUE)}
    /\ identityPublic \in {Absent, IdentityToString(OldIdentity, FALSE),
                           IdentityToString(StaleIdentity, FALSE)}
    /\ authtokenSecret \in {NoToken, 1}
    /\ netconfFile \in BOOLEAN
    /\ udpTaken \in SUBSET (0..(PortWindow - 1))

\* Process 1 has passed its startup on a home directory left by an earlier
\* run and is about to enter the main loop, as a supernode or not; its
\* topology knows every peer.
InitLoop ==
    /\ started = [n \in Nodes |-> n = 1]
    /\ running = [n \in Nodes |-> n = 1]
    /\ terminateNow = [n \in Nodes |-> FALSE]
    /\ reasonForTermination = [n \in Nodes |-> NODE_RUNNING]
    /\ reasonForTerminationStr = [n \in Nodes |-> RS_None]
    /\ pc = [n \in Nodes |-> IF n = 1 THEN "loopInit" ELSE "constructed"]
    /\ identity = [n \in Nodes |-> IF n = 1 THEN OldIdentity ELSE NoIdentity]
    /\ idser = [n \in Nodes |->
                  IF n = 1 THEN IdentityToString(OldIdentity, FALSE) ELSE Absent]
    /\ configAuthToken = [n \in Nodes |-> IF n = 1 THEN 1 ELSE NoToken]
    /\ boundPort = [n \in Nodes |-> IF n = 1 THEN 0 ELSE -1]
    /\ netconfService = [n \in Nodes |-> FALSE]
    /\ L = [n \in Nodes |-> NoLocals]
    /\ tick = [n \in Nodes |-> NoCalls]
    /\ tpc = [n \in Nodes |-> "idle"]
    /\ tcalled = [n \in Nodes |-> -1]
    /\ identitySecret = IdentityToString(OldIdentity, TRUE)
    /\ identityPublic = IdentityToString(OldIdentity, FALSE)
    /\ authtokenSecret = 1
    /\ netconfFile = FALSE
    /\ udpTaken = {0}
    /\ controlPort = 1
    /\ sysFingerprint = 0
    /\ clock = Epoch
    /\ amSupernode \in BOOLEAN
    /\ peers = Peers
    /\ InitObs
    /\ InitClient
    /\ InitBridge

\* terminateBecause without its running = false.
terminateBecause_KeepsRunning(n, r, rstr) ==
    /\ reasonForTerminationStr' = [reasonForTerminationStr EXCEPT ![n] = rstr]
    /\ reasonForTermination' = [reasonForTermination EXCEPT ![n] = r]
    /\ pc' = [pc EXCEPT ![n] = "returned"]
    /\ UNCHANGED <<started, running, terminateNow>>

(***************************************************************************)
(* _NodeImpl::terminateBecause                                             *)
(***************************************************************************)
terminateBecause(n, r, rstr) ==
    /\ reasonForTerminationStr' = [reasonForTerminationStr EXCEPT ![n] = rstr]
    /\ reasonForTermination' = [reasonForTermination EXCEPT ![n] = r]
    /\ running' = [running EXCEPT ![n] = FALSE]
    /\ pc' = [pc EXCEPT ![n] = "returned"]
    /\ UNCHANGED <<started, terminateNow>>

\* The handlers that close the try block of the startup sequence.
InitCatch(n, e) ==
    terminateBecause(n, NODE_UNRECOVERABLE_ERROR,
        CASE e = "bad_alloc" -> RS_BadAlloc
          [] e = "runtime_error" -> RS_What
          [] OTHER -> RS_UnknownInit)

\* A step of the startup sequence that goes on to the next one.
Goto(n, next) ==
    /\ pc' = [pc EXCEPT ![n] = next]
    /\ UNCHANGED implVars

(***************************************************************************)
(* Node::run, the startup sequence                                         *)
(***************************************************************************)
\* run() is entered: impl->started = true
RunEnter(n) ==
    /\ pc[n] = "constructed"
    /\ started' = [started EXCEPT ![n] = TRUE]
    /\ pc' = [pc EXCEPT ![n] = "entered"]
    /\ UNCHANGED <<running, terminateNow, reasonForTermination, reasonForTerminationStr,
                   startVars, L, tick, tpc, tcalled, fileVars, hostVars>>
    /\ UNCHANGED besideNode

\* impl->running = true
RunEnterRunning(n) ==
    /\ pc[n] = "entered"
    /\ running' = [running EXCEPT ![n] = TRUE]
    /\ pc' = [pc EXCEPT ![n] = "logger"]
    /\ UNCHANGED <<started, terminateNow, reasonForTermination, reasonForTerminationStr,
                   startVars, L, tick, tpc, tcalled, fileVars, hostVars>>
    /\ UNCHANGED besideNode

\* new Logger, new CMWC4096
RunLogger(n) ==
    /\ pc[n] = "logger"
    /\ \E e \in MayThrow :
         IF e = "none" THEN Goto(n, "readSecret") ELSE InitCatch(n, e)
    /\ UNCHANGED <<startVars, L, tick, tpc, tcalled, fileVars, hostVars>>
    /\ UNCHANGED besideNode

\* RunReadSecret with gotId taken from readFile alone, whatever fromString says.
RunReadSecret_IgnoresParse(n) ==
    /\ pc[n] = "readSecret"
    /\ IF ReadFileOk(identitySecret)
       THEN /\ identity' = [identity EXCEPT ![n] = IdentityFromString(identitySecret)]
            /\ Goto(n, "readPublic")
       ELSE /\ UNCHANGED identity
            /\ Goto(n, "generate")
    /\ UNCHANGED <<idser, configAuthToken, boundPort, netconfService,
                   L, tick, tpc, tcalled, fileVars, hostVars>>
    /\ UNCHANGED besideNode

\* readFile(identity.secret) and identity.fromString
RunReadSecret(n) ==
    /\ pc[n] = "readSecret"
    /\ IF ReadFileOk(identitySecret) /\ IdentityParses(identitySecret)
       THEN /\ identity' = [identity EXCEPT ![n] = IdentityFromString(identitySecret)]
            /\ Goto(n, "readPublic")
       ELSE /\ UNCHANGED identity
            /\ Goto(n, "generate")
    /\ UNCHANGED <<idser, configAuthToken, boundPort, netconfService,
                   L, tick, tpc, tcalled, fileVars, hostVars>>
    /\ UNCHANGED besideNode

\* gotId: readFile(identity.public)
RunReadPublic(n) ==
    /\ pc[n] = "readPublic"
    /\ idser' = [idser EXCEPT ![n] = identityPublic]
    /\ Goto(n, "checkPublic")
    /\ UNCHANGED <<identity, configAuthToken, boundPort, netconfService,
                   L, tick, tpc, tcalled, fileVars, hostVars>>
    /\ UNCHANGED besideNode

\* RunCheckPublic without the rewrite of a differing identity.public.
RunCheckPublic_NoRewrite(n) ==
    /\ pc[n] = "checkPublic"
    /\ Goto(n, "token")
    /\ UNCHANGED <<startVars, L, tick, tpc, tcalled, fileVars, hostVars>>
    /\ UNCHANGED besideNode

\* gotId: identity.public is rewritten when it differs from toString(false)
RunCheckPublic(n) ==
    /\ pc[n] = "checkPublic"
    /\ LET pubid == IdentityToString(identity[n], FALSE) IN
         IF idser[n] # pubid
         THEN \E written \in BOOLEAN :
                IF written
                THEN /\ identityPublic' = pubid
                     /\ Goto(n, "token")
                ELSE /\ UNCHANGED identityPublic
                     /\ terminateBecause(n, NODE_UNRECOVERABLE_ERROR, RS_WritePublic)
         ELSE /\ UNCHANGED identityPublic
              /\ Goto(n, "token")
    /\ UNCHANGED <<startVars, L, tick, tpc, tcalled, identitySecret, authtokenSecret,
                   netconfFile, hostVars>>
    /\ UNCHANGED besideNode

\* !gotId: identity.generate()
RunGenerate(n) ==
    /\ pc[n] = "generate"
    /\ identity' = [identity EXCEPT ![n] = IdentityGenerate(n)]
    /\ Goto(n, "writeSecret")
    /\ UNCHANGED <<idser, configAuthToken, boundPort, netconfService,
                   L, tick, tpc, tcalled, fileVars, hostVars>>
    /\ UNCHANGED besideNode

\* !gotId: writeFile(identity.secret, toString(true))
RunWriteSecret(n) ==
    /\ pc[n] = "writeSecret"
    /\ \E written \in BOOLEAN :
         IF written
         THEN /\ identitySecret' = IdentityToString(identity[n], TRUE)
              /\ Goto(n, "writePublic")
         ELSE /\ UNCHANGED identitySecret
              /\ terminateBecause(n, NODE_UNRECOVERABLE_ERROR, RS_WriteSecret)
    /\ UNCHANGED <<startVars, L, tick, tpc, tcalled, identityPublic, authtokenSecret,
                   netconfFile, hostVars>>
    /\ UNCHANGED besideNode

\* !gotId: writeFile(identity.public, toString(false))
RunWritePublic(n) ==
    /\ pc[n] = "writePublic"
    /\ \E written \in BOOLEAN :
         IF written
         THEN /\ identityPublic' = IdentityToString(identity[n], FALSE)
              /\ Goto(n, "token")
         ELSE /\ UNCHANGED identityPublic
              /\ terminateBecause(n, NODE_UNRECOVERABLE_ERROR, RS_WritePublic)
    /\ UNCHANGED <<startVars, L, tick, tpc, tcalled, identitySecret, authtokenSecret,
                   netconfFile, hostVars>>
    /\ UNCHANGED besideNode

\* RunToken that generates a token whether or not the file can be read.
RunToken_AlwaysGenerate(n) ==
    /\ pc[n] = "token"
    /\ \E t \in TokenGenerate(n) :
         configAuthToken' = [configAuthToken EXCEPT ![n] = t]
    /\ Goto(n, "writeToken")
    /\ UNCHANGED <<identity, idser, boundPort, netconfService,
                   L, tick, tpc, tcalled, fileVars, hostVars>>
    /\ UNCHANGED besideNode

\* readFile(authtoken.secret), or 24 random characters
RunToken(n) ==
    /\ pc[n] = "token"
    /\ IF authtokenSecret # NoToken
       THEN /\ configAuthToken' = [configAuthToken EXCEPT ![n] = authtokenSecret]
            /\ Goto(n, "nodeConfig")
       ELSE /\ \E t \in TokenGenerate(n) :
                 configAuthToken' = [configAuthToken EXCEPT ![n] = t]
            /\ Goto(n, "writeToken")
    /\ UNCHANGED <<identity, idser, boundPort, netconfService,
                   L, tick, tpc, tcalled, fileVars, hostVars>>
    /\ UNCHANGED besideNode

\* writeFile(authtoken.secret)
RunWriteToken(n) ==
    /\ pc[n] = "writeToken"
    /\ \E written \in BOOLEAN :
         IF written
         THEN /\ authtokenSecret' = configAuthToken[n]
              /\ Goto(n, "nodeConfig")
         ELSE /\ UNCHANGED authtokenSecret
              /\ terminateBecause(n, NODE_UNRECOVERABLE_ERROR, RS_WriteToken)
    /\ UNCHANGED <<startVars, L, tick, tpc, tcalled, identitySecret, identityPublic,
                   netconfFile, hostVars>>
    /\ UNCHANGED besideNode

\* NodeConfig's constructor binds the control port: whether it succeeds.
ControlPortBinds(n) == controlPort = 0

\* RunNodeConfig without the handler: a failed construction is passed over.
RunNodeConfig_NoCatch(n) ==
    /\ pc[n] = "nodeConfig"
    /\ controlPort' = IF ControlPortBinds(n) THEN n ELSE controlPort
    /\ Goto(n, "subsystems")
    /\ UNCHANGED <<startVars, L, tick, tpc, tcalled, fileVars,
                   udpTaken, sysFingerprint, clock, amSupernode, peers>>
    /\ UNCHANGED besideNode

\* new NodeConfig: any exception is taken for a second instance.
RunNodeConfig(n) ==
    /\ pc[n] = "nodeConfig"
    /\ \E e \in {"none", "bad_alloc"} :
         IF e = "none" /\ ControlPortBinds(n)
         THEN /\ controlPort' = n
              /\ Goto(n, "subsystems")
         ELSE /\ UNCHANGED controlPort
              /\ terminateBecause(n, NODE_UNRECOVERABLE_ERROR, RS_AnotherInstance)
    /\ UNCHANGED <<startVars, L, tick, tpc, tcalled, fileVars,
                   udpTaken, sysFingerprint, clock, amSupernode, peers>>
    /\ UNCHANGED besideNode

\* new Demarc, Multicaster, Switch, Topology, SysEnv
RunSubsystems(n) ==
    /\ pc[n] = "subsystems"
    /\ \E e \in MayThrow :
         IF e = "none" THEN Goto(n, "bindUdp") ELSE InitCatch(n, e)
    /\ UNCHANGED <<startVars, L, tick, tpc, tcalled, fileVars, hostVars>>
    /\ UNCHANGED besideNode

\* The ports of the window that bindLocalUdp can bind.
FreePorts == (0..(PortWindow - 1)) \ udpTaken

\* FirstFreePort, the scan run from the top of the window.
FirstFreePort_Highest == CHOOSE p \in FreePorts : \A q \in FreePorts : p >= q

\* The port the scan of the window binds.
FirstFreePort == CHOOSE p \in FreePorts : \A q \in FreePorts : p <= q

\* RunBindUdp without the test of boundPort after the scan.
RunBindUdp_NoCheck(n) ==
    /\ pc[n] = "bindUdp"
    /\ IF FreePorts # {}
       THEN /\ boundPort' = [boundPort EXCEPT ![n] = FirstFreePort]
            /\ udpTaken' = udpTaken \cup {FirstFreePort}
       ELSE UNCHANGED <<boundPort, udpTaken>>
    /\ Goto(n, "supernodes")
    /\ UNCHANGED <<identity, idser, configAuthToken, netconfService, L, tick, tpc,
                   tcalled, fileVars, controlPort, sysFingerprint, clock, amSupernode,
                   peers>>
    /\ UNCHANGED besideNode

\* for p in the window: bindLocalUdp(p)
RunBindUdp(n) ==
    /\ pc[n] = "bindUdp"
    /\ IF FreePorts # {}
       THEN /\ boundPort' = [boundPort EXCEPT ![n] = FirstFreePort]
            /\ udpTaken' = udpTaken \cup {FirstFreePort}
            /\ Goto(n, "supernodes")
       ELSE /\ UNCHANGED <<boundPort, udpTaken>>
            /\ terminateBecause(n, NODE_UNRECOVERABLE_ERROR, RS_NoUdpPort)
    /\ UNCHANGED <<identity, idser, configAuthToken, netconfService, L, tick, tpc, tcalled,
                   fileVars, controlPort, sysFingerprint, clock, amSupernode, peers>>
    /\ UNCHANGED besideNode

\* topology->setSupernodes
RunSupernodes(n) ==
    /\ pc[n] = "supernodes"
    /\ \E e \in MayThrow :
         IF e = "none" THEN Goto(n, "netconf") ELSE InitCatch(n, e)
    /\ UNCHANGED <<startVars, L, tick, tpc, tcalled, fileVars, hostVars>>
    /\ UNCHANGED besideNode

\* The netconf service is started when its file exists; a failure is logged.
RunNetconf(n) ==
    /\ pc[n] = "netconf"
    /\ \E e \in MayThrow :
         netconfService' = [netconfService EXCEPT ![n] = netconfFile /\ e = "none"]
    /\ Goto(n, "loopInit")
    /\ UNCHANGED <<identity, idser, configAuthToken, boundPort,
                   L, tick, tpc, tcalled, fileVars, hostVars>>
    /\ UNCHANGED besideNode


(***************************************************************************)
(* Node::run, the main loop                                                *)
(***************************************************************************)
\* Whether run() is inside the while loop.
InLoop(n) ==
    pc[n] \in {"loopTest", "sleepWake", "settling", "fingerprint", "multicast",
               "ping", "clean", "timerTasks", "waiting"}

\* OuterCatch without the handler: the exception taken for the end of the
\* loop.
OuterCatch_Normal(n) == terminateBecause(n, NODE_NORMAL_TERMINATION, RS_Normal)

\* The handler that closes the try block of the main loop.
OuterCatch(n) == terminateBecause(n, NODE_UNRECOVERABLE_ERROR, RS_OuterLoop)

\* The locals of the loop and the first reading of the fingerprint.
RunLoopInit(n) ==
    /\ pc[n] = "loopInit"
    /\ \E e \in MayThrow :
         IF e = "none"
         THEN /\ L' = [L EXCEPT ![n] = [NoLocals EXCEPT
                         !.lastClean = clock,
                         !.networkConfigurationFingerprint = sysFingerprint]]
              /\ Goto(n, "loopTest")
         ELSE /\ UNCHANGED L
              /\ OuterCatch(n)
    /\ UNCHANGED <<startVars, tick, tpc, tcalled, fileVars, hostVars>>
    /\ UNCHANGED besideNode

\* while (!terminateNow) { now = Utils::now(); pingAll = false;
LoopTest(n) ==
    /\ pc[n] = "loopTest"
    /\ IF terminateNow[n]
       THEN /\ terminateBecause(n, NODE_NORMAL_TERMINATION, RS_Normal)
            /\ UNCHANGED <<L, tick>>
       ELSE /\ L' = [L EXCEPT ![n].now = clock, ![n].pingAll = FALSE]
            /\ tick' = [tick EXCEPT ![n] = NoCalls]
            /\ Goto(n, "sleepWake")
    /\ UNCHANGED <<startVars, tpc, tcalled, fileVars, hostVars>>
    /\ UNCHANGED besideNode

\* Whether the last wait was late enough to be taken for a suspend/resume.
SleepWakeDetected(n) == L[n].lastDelayDelta >= ZT_SLEEP_WAKE_DETECTION_THRESHOLD

\* Sleep/wake detection; Thread::sleep begins.
SleepWake(n) ==
    /\ pc[n] = "sleepWake"
    /\ IF SleepWakeDetected(n)
       THEN /\ L' = [L EXCEPT ![n].lastNetworkFingerprintCheck = 0,
                              ![n].lastMulticastCheck = 0,
                              ![n].pingAll = TRUE,
                              ![n].start = clock,
                              ![n].deltaActed = TRUE]
            /\ tick' = [tick EXCEPT ![n].settled = TRUE]
            /\ Goto(n, "settling")
       ELSE /\ UNCHANGED <<L, tick>>
            /\ Goto(n, "fingerprint")
    /\ UNCHANGED <<startVars, tpc, tcalled, fileVars, hostVars>>
    /\ UNCHANGED besideNode

\* Thread::sleep(ZT_SLEEP_WAKE_SETTLE_TIME) returns.
SettleEnd(n) ==
    /\ pc[n] = "settling"
    /\ clock - L[n].start >= ZT_SLEEP_WAKE_SETTLE_TIME
    /\ Goto(n, "fingerprint")
    /\ UNCHANGED <<startVars, L, tick, tpc, tcalled, fileVars, hostVars>>
    /\ UNCHANGED besideNode

\* Whether the fingerprint check is due.
FingerprintDue(n) ==
    (L[n].now - L[n].lastNetworkFingerprintCheck) >= ZT_NETWORK_FINGERPRINT_CHECK_DELAY

\* FingerprintChanged without the comparison: every check reacts.
FingerprintChanged_Always(n, fp) == TRUE

\* Whether the fingerprint read calls for a reaction.
FingerprintChanged(n, fp) == fp # L[n].networkConfigurationFingerprint

\* The fingerprint check; e is what getNetworkConfigurationFingerprint or
\* whackAllTaps throws.
Fingerprint(n) ==
    /\ pc[n] = "fingerprint"
    /\ IF FingerprintDue(n)
       THEN \E e \in {"none", "fingerprint", "whack"} :
              LET fp == sysFingerprint IN
                IF e = "fingerprint"
                THEN /\ L' = [L EXCEPT ![n].lastNetworkFingerprintCheck = L[n].now]
                     /\ UNCHANGED tick
                     /\ OuterCatch(n)
                ELSE IF FingerprintChanged(n, fp)
                THEN /\ L' = [L EXCEPT ![n].lastNetworkFingerprintCheck = L[n].now,
                                       ![n].networkConfigurationFingerprint = fp,
                                       ![n].pingAll = TRUE,
                                       ![n].lastAutoconfigureCheck = 0,
                                       ![n].lastMulticastCheck = 0]
                     /\ tick' = [tick EXCEPT ![n].fpChecked = TRUE,
                                             ![n].fpChanged = TRUE,
                                             ![n].whacked = (e = "none")]
                     /\ IF e = "whack" THEN OuterCatch(n) ELSE Goto(n, "multicast")
                ELSE /\ e = "none"
                     /\ L' = [L EXCEPT ![n].lastNetworkFingerprintCheck = L[n].now]
                     /\ tick' = [tick EXCEPT ![n].fpChecked = TRUE]
                     /\ Goto(n, "multicast")
       ELSE /\ UNCHANGED <<L, tick>>
            /\ Goto(n, "multicast")
    /\ UNCHANGED <<startVars, tpc, tcalled, fileVars, hostVars>>
    /\ UNCHANGED besideNode

\* Whether the multicast check is due.
MulticastDue(n) ==
    (L[n].now - L[n].lastMulticastCheck) >= ZT_MULTICAST_LOCAL_POLL_PERIOD

\* announceAll
AnnounceAll(n) ==
    (L[n].now - L[n].lastMulticastAnnounceAll) >= ZT_MULTICAST_LIKE_ANNOUNCE_ALL_PERIOD

\* StampAnnounceAll outside the test of toAnnounce.size().
StampAnnounceAll_Always(announceAll, toAnnounce) == announceAll

\* Whether lastMulticastAnnounceAll is stamped after the announcement.
StampAnnounceAll(announceAll, toAnnounce) == announceAll /\ toAnnounce # {}

\* The multicast check.  networks are the networks joined, changed those
\* whose updateMulticastGroups() returns true, thrown whether
\* announceMulticastGroups throws.
Multicast(n) ==
    /\ pc[n] = "multicast"
    /\ IF MulticastDue(n)
       THEN \E networks \in SUBSET Networks, thrown \in BOOLEAN :
            \E changed \in SUBSET networks :
              LET announceAll == AnnounceAll(n)
                  toAnnounce == IF announceAll THEN networks ELSE changed
                  announced == toAnnounce # {} /\ ~thrown
              IN /\ thrown => toAnnounce # {}
                 /\ L' = [L EXCEPT
                       ![n].lastMulticastCheck = L[n].now,
                       ![n].lastMulticastAnnounceAll =
                           IF ~thrown /\ StampAnnounceAll(announceAll, toAnnounce)
                           THEN L[n].now ELSE @]
                 /\ tick' = [tick EXCEPT ![n].mcChecked = TRUE,
                                         ![n].announceAll = announceAll,
                                         ![n].toAnnounce = toAnnounce,
                                         ![n].announced = announced]
       ELSE UNCHANGED <<L, tick>>
    /\ Goto(n, "ping")
    /\ UNCHANGED <<startVars, tpc, tcalled, fileVars, hostVars>>
    /\ UNCHANGED besideNode


\* Whether the ping cycle is due.
PingDue(n) == (L[n].now - L[n].lastPingCheck) >= ZT_PING_CHECK_DELAY

\* The peers a loop over sel calls a send for, in the order of the vector,
\* when the sends to fail throw: a send inside its own try block does not
\* stop the loop, another one ends it.
SendsAttempted(sel, fail, guarded) ==
    IF guarded THEN sel ELSE {p \in sel : \A q \in fail \cap sel : q >= p}

\* The peers the ordinary branch sends HELLO to.
NeedPing(pingAll, active, needPing) == IF pingAll THEN active ELSE needPing

\* The peers the ordinary branch sends a firewall opener to.
NeedFirewallOpener(pingAll, needOpener) == IF pingAll THEN {} ELSE needOpener

\* What lastDirectSend() of a peer may return at a ping cycle at now: the
\* time exactly ZT_PEER_DIRECT_PING_DELAY ago, or one unit earlier.
DirectSendTimes(now) ==
    {now - ZT_PEER_DIRECT_PING_DELAY, now - ZT_PEER_DIRECT_PING_DELAY - 1}

\* DirectPingDue with >= for >.
DirectPingDue_AtLeast(now, lastDirectSend) ==
    (now - lastDirectSend) >= ZT_PEER_DIRECT_PING_DELAY

\* (now - (*p)->lastDirectSend()) > ZT_PEER_DIRECT_PING_DELAY
DirectPingDue(now, lastDirectSend) ==
    (now - lastDirectSend) > ZT_PEER_DIRECT_PING_DELAY

\* The ping cycle.  active are the peers with an active direct path when the
\* stage is reached, whether or not the cycle is due.  On a supernode, sns
\* are the supernode peers with their lastDirectSend(); on an ordinary node,
\* needPing and needOpener are what CollectPeersThatNeedPing and
\* CollectPeersThatNeedFirewallOpener find.  fail are the peers a send to
\* which throws, collectThrows is whether collecting the peers throws.
Ping(n) ==
    /\ pc[n] = "ping"
    /\ \E active \in SUBSET peers :
       IF PingDue(n)
       THEN \E fail \in SUBSET peers, collectThrows \in BOOLEAN :
            IF amSupernode
            THEN \E supernodePeers \in SUBSET peers :
                 \E lastDirectSend \in [supernodePeers -> DirectSendTimes(L[n].now)] :
                   LET due == {p \in supernodePeers :
                                 DirectPingDue(L[n].now, lastDirectSend[p])}
                   IN /\ L' = [L EXCEPT ![n].lastPingCheck = L[n].now]
                      /\ tick' = [tick EXCEPT
                            ![n].pingRan = TRUE,
                            ![n].pingAll = L[n].pingAll,
                            ![n].active = active,
                            ![n].sns = IF collectThrows THEN {}
                                       ELSE {<<p, lastDirectSend[p]>> : p \in supernodePeers},
                            ![n].caught = collectThrows \/ due \cap fail # {},
                            ![n].hello = IF collectThrows THEN {}
                                         ELSE SendsAttempted(due, fail, FALSE),
                            ![n].opener = {}]
            ELSE \E needOpener \in SUBSET peers, needPing \in SUBSET active :
                   /\ L' = [L EXCEPT ![n].lastPingCheck = L[n].now]
                   /\ tick' = [tick EXCEPT
                         ![n].pingRan = TRUE,
                         ![n].pingAll = L[n].pingAll,
                         ![n].active = active,
                         ![n].needPing =
                             IF collectThrows \/ L[n].pingAll THEN {} ELSE needPing,
                         ![n].needFirewallOpener =
                             IF collectThrows \/ L[n].pingAll THEN {} ELSE needOpener,
                         ![n].caught = collectThrows,
                         ![n].hello =
                             IF collectThrows THEN {}
                             ELSE SendsAttempted(NeedPing(L[n].pingAll, active, needPing),
                                                 fail, TRUE),
                         ![n].opener =
                             IF collectThrows THEN {}
                             ELSE SendsAttempted(
                                      NeedFirewallOpener(L[n].pingAll, needOpener),
                                      fail, TRUE)]
       ELSE /\ tick' = [tick EXCEPT ![n].active = active]
            /\ UNCHANGED L
    /\ Goto(n, "clean")
    /\ UNCHANGED <<startVars, tpc, tcalled, fileVars, hostVars>>
    /\ UNCHANGED besideNode

\* Whether the cleanup is due.
CleanDue(n) == (L[n].now - L[n].lastClean) >= ZT_DB_CLEAN_PERIOD

\* topology->clean() and nc->cleanAllNetworks()
Clean(n) ==
    /\ pc[n] = "clean"
    /\ IF CleanDue(n)
       THEN \E thrown \in BOOLEAN :
              /\ L' = [L EXCEPT ![n].lastClean = L[n].now]
              /\ tick' = [tick EXCEPT ![n].cleaned = ~thrown]
              /\ IF thrown THEN OuterCatch(n) ELSE Goto(n, "timerTasks")
       ELSE /\ UNCHANGED <<L, tick>>
            /\ Goto(n, "timerTasks")
    /\ UNCHANGED <<startVars, tpc, tcalled, fileVars, hostVars>>
    /\ UNCHANGED besideNode

\* Min without the cap: the delay doTimerTasks() asks for.
Min_Uncapped(a, b) == b

\* std::min(ZT_MIN_SERVICE_LOOP_INTERVAL, doTimerTasks())
Min(a, b) == IF a <= b THEN a ELSE b

\* What doTimerTasks() may return.
TimerTaskDelays == {1, ZT_MIN_SERVICE_LOOP_INTERVAL + 2}

\* doTimerTasks(), then the wait on mainLoopWaitCondition begins; when
\* doTimerTasks throws the iteration ends without a wait.
TimerTasks(n) ==
    /\ pc[n] = "timerTasks"
    /\ \/ \E r \in TimerTaskDelays :
            /\ L' = [L EXCEPT ![n].delay = Min(ZT_MIN_SERVICE_LOOP_INTERVAL, r),
                              ![n].start = clock,
                              ![n].signalled = FALSE]
            /\ Goto(n, "waiting")
       \/ /\ UNCHANGED L
          /\ Goto(n, "loopTest")
    /\ tick' = [tick EXCEPT ![n] = NoCalls]
    /\ UNCHANGED <<startVars, tpc, tcalled, fileVars, hostVars>>
    /\ UNCHANGED besideNode

\* lastDelayDelta as the wait stage computes it.
DelayDelta(n) == (clock - L[n].start) - L[n].delay

\* mainLoopWaitCondition.wait(delay) returns: signalled, or timed out.
WaitEnd(n) ==
    /\ pc[n] = "waiting"
    /\ L[n].signalled \/ clock - L[n].start >= L[n].delay
    /\ L' = [L EXCEPT ![n].lastDelayDelta = DelayDelta(n), ![n].signalled = FALSE,
                      ![n].deltaActed = FALSE]
    /\ Goto(n, "loopTest")
    /\ UNCHANGED <<startVars, tick, tpc, tcalled, fileVars, hostVars>>
    /\ UNCHANGED besideNode

(***************************************************************************)
(* Node::terminate, called from another thread, and Node::~Node            *)
(***************************************************************************)
\* terminateNow = true
TerminateSet(n) ==
    /\ tpc[n] = "idle"
    /\ pc[n] \notin {"destroyed"}
    /\ terminateNow' = [terminateNow EXCEPT ![n] = TRUE]
    /\ tpc' = [tpc EXCEPT ![n] = "signal"]
    /\ tcalled' = [tcalled EXCEPT ![n] =
                      IF InLoop(n) /\ ~terminateNow[n] THEN clock ELSE @]
    /\ UNCHANGED <<started, running, reasonForTermination, reasonForTerminationStr,
                   pc, startVars, L, tick, fileVars, hostVars>>
    /\ UNCHANGED besideNode

\* mainLoopWaitCondition.signal(): it wakes a thread that waits, and is lost
\* when none does.
TerminateSignal(n) ==
    /\ tpc[n] = "signal"
    /\ L' = [L EXCEPT ![n].signalled = (pc[n] = "waiting")]
    /\ tpc' = [tpc EXCEPT ![n] = "idle"]
    /\ UNCHANGED <<implVars, pc, startVars, tick, tcalled, fileVars, hostVars>>
    /\ UNCHANGED besideNode

\* ~Node, after run() has returned: the sockets are closed.
Destroy(n) ==
    /\ pc[n] = "returned"
    /\ tpc[n] = "idle"
    /\ pc' = [pc EXCEPT ![n] = "destroyed"]
    /\ controlPort' = IF controlPort = n THEN 0 ELSE controlPort
    /\ udpTaken' = udpTaken \ {boundPort[n]}
    /\ boundPort' = [boundPort EXCEPT ![n] = -1]
    /\ UNCHANGED <<implVars, identity, idser, configAuthToken, netconfService,
                   L, tick, tpc, tcalled, fileVars, sysFingerprint, clock, amSupernode, peers>>
    /\ UNCHANGED besideNode

(***************************************************************************)
(* The host                                                                *)
(***************************************************************************)
\* Time passes while a thread is suspended.  A sleep ends on time; a wait may
\* end late, by any amount.
Tick ==
    /\ clock < Epoch + Horizon
    /\ \E n \in Nodes : pc[n] \in {"waiting", "settling"}
    /\ \A n \in Nodes :
         pc[n] = "settling" => clock - L[n].start < ZT_SLEEP_WAKE_SETTLE_TIME
    /\ clock' = clock + 1
    /\ UNCHANGED <<implVars, pc, startVars, L, tick, tpc, tcalled, fileVars,
                   controlPort, udpTaken, sysFingerprint, amSupernode, peers>>
    /\ UNCHANGED besideNode

\* The network configuration of the host changes.
FingerprintChange ==
    /\ sysFingerprint' = 1 - sysFingerprint
    /\ UNCHANGED <<implVars, pc, startVars, L, tick, tpc, tcalled, fileVars,
                   controlPort, udpTaken, clock, amSupernode, peers>>
    /\ UNCHANGED besideNode

(***************************************************************************)
(* Node::reasonForTermination, called from another thread: it reads        *)
(* started, then running, then the string, one after the other.            *)
(***************************************************************************)
\* What the call returns when the string is not exposed.
Null == "null"

\* if (!started) return 0
ObsStarted(n) ==
    /\ opc[n] = "idle"
    /\ pc[n] # "destroyed"
    /\ IF started[n]
       THEN opc' = [opc EXCEPT ![n] = "running"] /\ UNCHANGED seen
       ELSE seen' = [seen EXCEPT ![n] = Null] /\ UNCHANGED opc
    /\ UNCHANGED besideObs

\* if (running) return 0
ObsRunning(n) ==
    /\ opc[n] = "running"
    /\ pc[n] # "destroyed"
    /\ IF running[n]
       THEN /\ seen' = [seen EXCEPT ![n] = Null]
            /\ opc' = [opc EXCEPT ![n] = "idle"]
       ELSE opc' = [opc EXCEPT ![n] = "string"] /\ UNCHANGED seen
    /\ UNCHANGED besideObs

\* return reasonForTerminationStr.c_str()
ObsString(n) ==
    /\ opc[n] = "string"
    /\ pc[n] # "destroyed"
    /\ seen' = [seen EXCEPT ![n] = reasonForTerminationStr[n]]
    /\ opc' = [opc EXCEPT ![n] = "idle"]
    /\ UNCHANGED besideObs

\* The steps of run() that can be taken while the clock stands still.
RunningAtOnce(n) ==
    \/ RunEnter(n) \/ RunEnterRunning(n)
    \/ RunLogger(n) \/ RunReadSecret(n) \/ RunReadPublic(n)
    \/ RunCheckPublic(n) \/ RunGenerate(n) \/ RunWriteSecret(n) \/ RunWritePublic(n)
    \/ RunToken(n) \/ RunWriteToken(n) \/ RunNodeConfig(n) \/ RunSubsystems(n)
    \/ RunBindUdp(n) \/ RunSupernodes(n) \/ RunNetconf(n) \/ RunLoopInit(n)
    \/ LoopTest(n) \/ SleepWake(n) \/ Fingerprint(n) \/ Multicast(n)
    \/ Ping(n) \/ Clean(n) \/ TimerTasks(n) \/ WaitEnd(n)

\* Whether no process but n is inside run().
Alone(n) == \A m \in Nodes \ {n} : pc[m] \in {"constructed", "returned", "destroyed"}

\* What process n and the threads that use its Node can do.
Process(n) ==
    \/ RunningAtOnce(n)
    \/ TerminateSet(n)
    \/ TerminateSignal(n)
    \/ Destroy(n)

\* Every process races the others through its startup and first iteration,
\* in a time too short for the clock to advance.
Next == \E n \in Nodes : Process(n)

Spec == Init /\ [][Next]_vars

\* The processes run one after the other on the same home directory: a
\* start, then restarts.
NextSeq == \E n \in Nodes : Alone(n) /\ Process(n)

SpecSeq == InitAnyHome /\ [][NextSeq]_vars

\* The steps of the main loop.
Looping(n) ==
    \/ RunLoopInit(n) \/ LoopTest(n) \/ SleepWake(n) \/ SettleEnd(n)
    \/ Fingerprint(n) \/ Multicast(n) \/ Ping(n) \/ Clean(n) \/ TimerTasks(n)
    \/ WaitEnd(n)

\* The main loop of one process over time.
NextLoop ==
    \/ Looping(1)
    \/ TerminateSet(1)
    \/ TerminateSignal(1)
    \/ Destroy(1)
    \/ Tick
    \/ FingerprintChange

SpecLoop == InitLoop /\ [][NextLoop]_vars

\* One process from its construction to its destruction, with a thread that
\* calls reasonForTermination() at any moment.
NextObs ==
    \/ Process(1)
    \/ ObsStarted(1)
    \/ ObsRunning(1)
    \/ ObsString(1)

SpecObs == Init /\ [][NextObs]_vars


(***************************************************************************)
(* Node::LocalClient.  One thread owns the client: it constructs it, calls *)
(* send() and destroys it.  The socket's thread calls                      *)
(* _CBlocalClientHandler for every packet that arrives.  The node answers  *)
(* a request with packets that carry the conversation ID of the request    *)
(* and are authenticated with the node's key; anybody may send packets     *)
(* that are not.                                                           *)
(***************************************************************************)
\* The values of rand(), and the line vectors of a response packet.
RandValues == 0..MaxRand
LineSeqs == {<<>>, <<"a">>, <<"a", "b">>}

\* How the encoding and sending of send() can end: every packet handed to
\* the socket and sent; handed to the socket, which fails to send it
\* without throwing; an exception while encoding; an exception in
\* UdpSocket::send.
SendOutcomes == {"sent", "lost", "encodeThrows", "sendThrows"}

\* uint32_t convId = (uint32_t)rand(); if (!convId) convId = 1;
\* rand() is in 0..RAND_MAX, which 32 bits hold: the cast changes nothing.
ConvId(r) == IF r = 0 THEN 1 ELSE r

\* Whether ~LocalClient has taken inUseLock.
DestructionBegun == cpc \in {"deleteSock", "unlock", "deleteImpl", "gone"} /\ cImpl # "null"

\* LocalClient::LocalClient: new _LocalClientImpl
ClientNew ==
    /\ cpc = "none"
    /\ cImpl' = "new"
    /\ cpc' = "binding"
    /\ UNCHANGED <<cSock, cLock, cKey, cTries, sockJoins, hpc, hpkt, hdone, hleft,
                   reqs, inbox, sends, calls, made, late, uaf>>
    /\ UNCHANGED besideClient

\* One attempt to bind a socket on a random port; after a success the key
\* is derived from the auth token and the fields of the impl are set.
ClientBind ==
    /\ cpc = "binding"
    /\ cTries < BindAttempts
    /\ \E bound \in BOOLEAN :
         IF bound
         THEN /\ cSock' = "open"
              /\ \E k \in {NodeKey, WrongKey} : cKey' = k
              /\ cImpl' = "live"
              /\ cpc' = "ready"
              /\ UNCHANGED cTries
         ELSE /\ cTries' = cTries + 1
              /\ UNCHANGED <<cSock, cKey, cImpl, cpc>>
    /\ UNCHANGED <<cLock, sockJoins, hpc, hpkt, hdone, hleft,
                   reqs, inbox, sends, calls, made, late, uaf>>
    /\ UNCHANGED besideClient

\* Every attempt has failed: delete impl, _impl stays null.
ClientBindFailed ==
    /\ cpc = "binding"
    /\ cTries = BindAttempts
    /\ cImpl' = "null"
    /\ cpc' = "ready"
    /\ UNCHANGED <<cSock, cLock, cKey, cTries, sockJoins, hpc, hpkt, hdone, hleft,
                   reqs, inbox, sends, calls, made, late, uaf>>
    /\ UNCHANGED besideClient

\* ClientSend that returns the conversation ID however the sending ends.
ClientSend_NoCatch ==
    /\ cpc = "ready"
    /\ Len(sends) < MaxSends
    /\ cImpl # "null"
    /\ cLock = "free"
    /\ \E r \in RandValues, outcome \in SendOutcomes :
         /\ reqs' = IF outcome = "sent"
                    THEN reqs \cup {[conv |-> ConvId(r), key |-> cKey]} ELSE reqs
         /\ sends' = Append(sends, [ret |-> ConvId(r), conv |-> ConvId(r),
                                    outcome |-> outcome])
    /\ UNCHANGED <<cpc, cImpl, cSock, cLock, cKey, cTries, sockJoins, hpc, hpkt, hdone,
                   hleft, inbox, calls, made, late, uaf>>
    /\ UNCHANGED besideClient

\* LocalClient::send(command)
ClientSend ==
    /\ cpc = "ready"
    /\ Len(sends) < MaxSends
    /\ IF cImpl = "null"
       THEN /\ sends' = Append(sends, [ret |-> 0, conv |-> 0, outcome |-> "noimpl"])
            /\ UNCHANGED reqs
       ELSE /\ cLock = "free"
            /\ \E r \in RandValues, outcome \in SendOutcomes :
                 /\ reqs' = IF outcome = "sent"
                            THEN reqs \cup {[conv |-> ConvId(r), key |-> cKey]}
                            ELSE reqs
                 /\ sends' = Append(sends,
                       [ret |-> IF outcome \in {"sent", "lost"} THEN ConvId(r) ELSE 0,
                        conv |-> ConvId(r), outcome |-> outcome])
    /\ UNCHANGED <<cpc, cImpl, cSock, cLock, cKey, cTries, sockJoins, hpc, hpkt, hdone,
                   hleft, inbox, calls, made, late, uaf>>
    /\ UNCHANGED besideClient

\* ~LocalClient: if (_impl) inUseLock.lock()
ClientDestroy ==
    /\ cpc = "ready"
    /\ IF cImpl = "null"
       THEN /\ cpc' = "gone"
            /\ UNCHANGED cLock
       ELSE /\ cLock = "free"
            /\ cLock' = "main"
            /\ cpc' = "deleteSock"
    /\ UNCHANGED <<cImpl, cSock, cKey, cTries, sockJoins, hpc, hpkt, hdone, hleft,
                   reqs, inbox, sends, calls, made, late, uaf>>
    /\ UNCHANGED besideClient

\* ~LocalClient: delete sock.  A ~UdpSocket that waits for the socket's
\* thread returns only when that thread is not inside the handler.
ClientDeleteSock ==
    /\ cpc = "deleteSock"
    /\ sockJoins => hpc = "idle"
    /\ cSock' = "deleted"
    /\ cpc' = "unlock"
    /\ UNCHANGED <<cImpl, cLock, cKey, cTries, sockJoins, hpc, hpkt, hdone, hleft,
                   reqs, inbox, sends, calls, made, late, uaf>>
    /\ UNCHANGED besideClient

\* ~LocalClient: inUseLock.unlock()
ClientUnlock ==
    /\ cpc = "unlock"
    /\ cLock' = "free"
    /\ cpc' = "deleteImpl"
    /\ UNCHANGED <<cImpl, cSock, cKey, cTries, sockJoins, hpc, hpkt, hdone, hleft,
                   reqs, inbox, sends, calls, made, late, uaf>>
    /\ UNCHANGED besideClient

\* ~LocalClient: delete impl
ClientDeleteImpl ==
    /\ cpc = "deleteImpl"
    /\ cImpl' = "freed"
    /\ cpc' = "gone"
    /\ UNCHANGED <<cSock, cLock, cKey, cTries, sockJoins, hpc, hpkt, hdone, hleft,
                   reqs, inbox, sends, calls, made, late, uaf>>
    /\ UNCHANGED besideClient

\* The socket's thread takes a packet off the socket.
HandlerReceive ==
    /\ hpc = "idle"
    /\ cSock = "open"
    /\ \E p \in inbox :
         /\ inbox' = inbox \ {p}
         /\ hpkt' = p
    /\ hpc' = "received"
    /\ UNCHANGED <<cpc, cImpl, cSock, cLock, cKey, cTries, sockJoins, hdone, hleft,
                   reqs, sends, calls, made, late, uaf>>
    /\ UNCHANGED besideClient

\* The handler is left: the packet is dropped.
HandlerLeave ==
    /\ hpc' = "idle"
    /\ hpkt' = NoPacket
    /\ hdone' = <<>>
    /\ hleft' = <<>>

\* _CBlocalClientHandler: if (!impl->resultHandler) return.  Freed memory
\* holds any value.
HandlerCheck ==
    /\ hpc = "received"
    /\ uaf' = (uaf \/ cImpl = "freed")
    /\ \E set \in (IF cImpl = "freed" THEN BOOLEAN ELSE {TRUE}) :
         IF set
         THEN hpc' = "checked" /\ UNCHANGED <<hpkt, hdone, hleft>>
         ELSE HandlerLeave
    /\ UNCHANGED <<cpc, cImpl, cSock, cLock, cKey, cTries, sockJoins,
                   reqs, inbox, sends, calls, made, late>>
    /\ UNCHANGED besideClient

\* _CBlocalClientHandler: Mutex::Lock _l(impl->inUseLock)
HandlerLock ==
    /\ hpc = "checked"
    /\ cLock = "free"
    /\ cLock' = "sock"
    /\ hpc' = "locked"
    /\ uaf' = (uaf \/ cImpl = "freed")
    /\ UNCHANGED <<cpc, cImpl, cSock, cKey, cTries, sockJoins, hpkt, hdone, hleft,
                   reqs, inbox, sends, calls, made, late>>
    /\ UNCHANGED besideClient

\* Whether decodeControlMessagePacket(impl->key, ...) accepts the packet.
Decodes(p, key) == p.key = key

\* HandlerDecode that passes on the lines of a packet it cannot
\* authenticate.
HandlerDecode_NoAuth ==
    /\ hpc = "locked"
    /\ uaf' = (uaf \/ cImpl = "freed")
    /\ hleft' = hpkt.lines
    /\ hdone' = <<>>
    /\ hpc' = "calling"
    /\ UNCHANGED <<hpkt, cLock>>
    /\ UNCHANGED <<cpc, cImpl, cSock, cKey, cTries, sockJoins,
                   reqs, inbox, sends, calls, made, late>>
    /\ UNCHANGED besideClient

\* _CBlocalClientHandler: decodeControlMessagePacket, which may throw.  A
\* freed key may still hold its value, or any other, with which no packet
\* authenticates.
HandlerDecode ==
    /\ hpc = "locked"
    /\ uaf' = (uaf \/ cImpl = "freed")
    /\ \E thrown \in BOOLEAN,
          ok \in (IF cImpl = "freed" THEN {FALSE, Decodes(hpkt, cKey)}
                  ELSE {Decodes(hpkt, cKey)}) :
         IF ok /\ ~thrown
         THEN /\ hleft' = hpkt.lines
              /\ hdone' = <<>>
              /\ hpc' = "calling"
              /\ UNCHANGED <<hpkt, cLock>>
         ELSE /\ HandlerLeave
              /\ cLock' = "free"
    /\ UNCHANGED <<cpc, cImpl, cSock, cKey, cTries, sockJoins,
                   reqs, inbox, sends, calls, made, late>>
    /\ UNCHANGED besideClient

\* _CBlocalClientHandler: impl->resultHandler(impl->arg, convId, r->c_str())
\* for the next line; an exception of the result handler ends the loop.
HandlerCall ==
    /\ hpc = "calling"
    /\ hleft # <<>>
    /\ calls' = Append(calls, <<hpkt.conv, Head(hleft)>>)
    /\ late' = (late \/ DestructionBegun)
    /\ uaf' = (uaf \/ cImpl = "freed")
    /\ \E thrown \in BOOLEAN :
         IF thrown
         THEN /\ HandlerLeave
              /\ cLock' = "free"
         ELSE /\ hdone' = Append(hdone, Head(hleft))
              /\ hleft' = Tail(hleft)
              /\ UNCHANGED <<hpc, hpkt, cLock>>
    /\ UNCHANGED <<cpc, cImpl, cSock, cKey, cTries, sockJoins,
                   reqs, inbox, sends, made>>
    /\ UNCHANGED besideClient

\* _CBlocalClientHandler: the loop is over, the lock is released.
HandlerReturn ==
    /\ hpc = "calling"
    /\ hleft = <<>>
    /\ HandlerLeave
    /\ cLock' = "free"
    /\ uaf' = (uaf \/ cImpl = "freed")
    /\ UNCHANGED <<cpc, cImpl, cSock, cKey, cTries, sockJoins,
                   reqs, inbox, sends, calls, made, late>>
    /\ UNCHANGED besideClient

\* The node answers a request it can authenticate with a packet that
\* carries the conversation ID of the request.
ServerAnswer ==
    /\ made < MaxPackets
    /\ cSock = "open"
    /\ \E r \in reqs, lines \in LineSeqs :
         /\ r.key = NodeKey
         /\ inbox' = inbox \cup {[conv |-> r.conv, key |-> NodeKey, lines |-> lines]}
    /\ made' = made + 1
    /\ UNCHANGED <<cpc, cImpl, cSock, cLock, cKey, cTries, sockJoins, hpc, hpkt, hdone,
                   hleft, reqs, sends, calls, late, uaf>>
    /\ UNCHANGED besideClient

\* Somebody who does not know the key sends a packet to the client's port.
Forge ==
    /\ made < MaxPackets
    /\ cSock = "open"
    /\ \E r \in RandValues \ {0}, lines \in LineSeqs \ {<<>>} :
         inbox' = inbox \cup {[conv |-> r, key |-> 0, lines |-> lines]}
    /\ made' = made + 1
    /\ UNCHANGED <<cpc, cImpl, cSock, cLock, cKey, cTries, sockJoins, hpc, hpkt, hdone,
                   hleft, reqs, sends, calls, late, uaf>>
    /\ UNCHANGED besideClient

\* A client from its construction to its destruction, its socket's thread
\* and the loopback.
NextClient ==
    \/ ClientNew \/ ClientBind \/ ClientBindFailed \/ ClientSend
    \/ ClientDestroy \/ ClientDeleteSock \/ ClientUnlock \/ ClientDeleteImpl
    \/ HandlerReceive \/ HandlerCheck \/ HandlerLock \/ HandlerDecode
    \/ HandlerCall \/ HandlerReturn
    \/ ServerAnswer \/ Forge

\* No client yet; whether ~UdpSocket waits for the socket's thread is a
\* matter of UdpSocket.
InitClientSpec ==
    /\ InitNodes
    /\ InitHost
    /\ identitySecret = Absent
    /\ identityPublic = Absent
    /\ authtokenSecret = NoToken
    /\ netconfFile = FALSE
    /\ udpTaken = {}
    /\ InitObs
    /\ cpc = "none" /\ cImpl = "null" /\ cSock = "none" /\ cLock = "free"
    /\ cKey = 0 /\ cTries = 0
    /\ sockJoins \in BOOLEAN
    /\ hpc = "idle" /\ hpkt = NoPacket /\ hdone = <<>> /\ hleft = <<>>
    /\ reqs = {} /\ inbox = {}
    /\ sends = <<>> /\ calls = <<>> /\ made = 0
    /\ late = FALSE /\ uaf = FALSE
    /\ InitBridge

SpecClient == InitClientSpec /\ [][NextClient]_vars

(***************************************************************************)
(* The netconf bridge.  The Service's thread passes every message of the   *)
(* netconf service, a Dictionary, to _netconfServiceMessageHandler, which  *)
(* gives at most one packet to Switch::send.  A Dictionary is a function   *)
(* from the keys it contains to strings.                                   *)
(***************************************************************************)
\* The values a message of the service can carry under each key.  A payload
\* is known by its length.
TypeValues == {"netconf-response", "netconf-request"}
HexValues == {"1a", "1", "2", "zz"}
PeerValues == {"0000000000", "89e92ceee5"}
ErrorValues == {"NOT_FOUND", "ACCESS_DENIED"}
NetconfValues == {"500 bytes", "2047 bytes", "2048 bytes", "3000 bytes"}

\* std::string::length() of a payload
Length(payload) ==
    CASE payload = "500 bytes" -> 500
      [] payload = "2047 bytes" -> 2047
      [] payload = "2048 bytes" -> 2048
      [] payload = "3000 bytes" -> 3000

\* The sanity check of the payload: if (netconf.length() < 2048)
NetconfSanityLength == 2048

\* strtoull(s, (char **)0, 16): the hexadecimal digits s begins with, 0 when
\* it begins with none
Strtoull16(s) ==
    CASE s = "1a" -> 26
      [] s = "1" -> 1
      [] s = "2" -> 2
      [] OTHER -> 0

\* Address(const char *): the hexadecimal address; the zero address is false
AddressOf(s) == IF s = "89e92ceee5" THEN 1 ELSE 0

\* _r->nc->network(nwid): the network of that id if the node has joined it,
\* a null pointer otherwise
NullNetwork == 0
NetworkOf(nwid) == IF nwid \in Networks THEN nwid ELSE NullNetwork

\* msg.contains(key)
Contains(m, key) == key \in DOMAIN m

\* The Dictionary with the given values; Absent for a key it does not contain.
NoValue == "(absent)"
Opt(S) == S \cup {NoValue}
DictionaryOf(t, r, n, p, e, c) ==
    LET all == [type |-> t, requestId |-> r, nwid |-> n, peer |-> p, error |-> e,
                netconf |-> c]
    IN [k \in {key \in DOMAIN all : all[key] # NoValue} |-> all[k]]

\* What one call of the handler does with msg: the packets it gives to
\* Switch::send and whether it logs an exception.  msg.get(key) throws when
\* the message does not contain the key.
Dropped == [outp |-> <<>>, logged |-> FALSE]
Thrown == [outp |-> <<>>, logged |-> TRUE]
Handled_NoSanityCheck(m) ==
    IF ~Contains(m, "type") THEN Thrown
    ELSE IF m["type"] # "netconf-response" THEN Dropped
    ELSE IF ~({"requestId", "nwid", "peer"} \subseteq DOMAIN m) THEN Thrown
    ELSE LET inRePacketId == Strtoull16(m["requestId"])
             network == NetworkOf(Strtoull16(m["nwid"]))
             peerAddress == AddressOf(m["peer"])
         IN IF network # NullNetwork /\ peerAddress # 0
            THEN IF Contains(m, "error")
                 THEN [outp |-> << [dest |-> peerAddress, verb |-> "VERB_ERROR",
                                    inReVerb |-> "VERB_NETWORK_CONFIG_REQUEST",
                                    inRePacketId |-> inRePacketId,
                                    errCode |-> IF m["error"] = "NOT_FOUND"
                                                THEN "ERROR_NOT_FOUND"
                                                ELSE "ERROR_INVALID_REQUEST",
                                    nwid |-> network] >>,
                       logged |-> FALSE]
                 ELSE IF Contains(m, "netconf")
                 THEN [outp |-> << [dest |-> peerAddress, verb |-> "VERB_OK",
                                    inReVerb |-> "VERB_NETWORK_CONFIG_REQUEST",
                                    inRePacketId |-> inRePacketId,
                                    nwid |-> network,
                                    length |-> Length(m["netconf"]) % 65536,
                                    payload |-> m["netconf"]] >>,
                       logged |-> FALSE]
                 ELSE Dropped
            ELSE Dropped

Handled(m) ==
    IF ~Contains(m, "type") THEN Thrown
    ELSE IF m["type"] # "netconf-response" THEN Dropped
    ELSE IF ~({"requestId", "nwid", "peer"} \subseteq DOMAIN m) THEN Thrown
    ELSE LET inRePacketId == Strtoull16(m["requestId"])
             network == NetworkOf(Strtoull16(m["nwid"]))
             peerAddress == AddressOf(m["peer"])
         IN IF network # NullNetwork /\ peerAddress # 0
            THEN IF Contains(m, "error")
                 THEN [outp |-> << [dest |-> peerAddress, verb |-> "VERB_ERROR",
                                    inReVerb |-> "VERB_NETWORK_CONFIG_REQUEST",
                                    inRePacketId |-> inRePacketId,
                                    errCode |-> IF m["error"] = "NOT_FOUND"
                                                THEN "ERROR_NOT_FOUND"
                                                ELSE "ERROR_INVALID_REQUEST",
                                    nwid |-> network] >>,
                       logged |-> FALSE]
                 ELSE IF Contains(m, "netconf")
                 THEN IF Length(m["netconf"]) < NetconfSanityLength
                      THEN [outp |-> << [dest |-> peerAddress, verb |-> "VERB_OK",
                                         inReVerb |-> "VERB_NETWORK_CONFIG_REQUEST",
                                         inRePacketId |-> inRePacketId,
                                         nwid |-> network,
                                         length |-> Length(m["netconf"]) % 65536,
                                         payload |-> m["netconf"]] >>,
                            logged |-> FALSE]
                      ELSE Dropped
                 ELSE Dropped
            ELSE Dropped

\* The Service's thread has read a message of the netconf service and
\* calls the handler with it.
ServiceMessage ==
    /\ bpc = "idle"
    /\ \E t \in Opt(TypeValues), r \in Opt(HexValues), n \in Opt(HexValues),
          p \in Opt(PeerValues), e \in Opt(ErrorValues), c \in Opt(NetconfValues) :
         msg' = DictionaryOf(t, r, n, p, e, c)
    /\ renv' \in BOOLEAN
    /\ outp' = <<>>
    /\ logged' = FALSE
    /\ bpc' = "called"
    /\ UNCHANGED besideBridge

\* _netconfServiceMessageHandler(renv, svc, msg)
netconfServiceMessageHandler ==
    /\ bpc = "called"
    /\ IF ~renv
       THEN UNCHANGED <<outp, logged>>
       ELSE /\ outp' = Handled(msg).outp
            /\ logged' = Handled(msg).logged
    /\ bpc' = "returned"
    /\ UNCHANGED <<renv, msg>>
    /\ UNCHANGED besideBridge

\* The handler has returned: the message and the packet are gone, the
\* Service's thread waits for the next message.
ServiceNext ==
    /\ bpc = "returned"
    /\ bpc' = "idle"
    /\ renv' = TRUE
    /\ msg' = NoMessage
    /\ outp' = <<>>
    /\ logged' = FALSE
    /\ UNCHANGED besideBridge

NextBridge == ServiceMessage \/ netconfServiceMessageHandler \/ ServiceNext

SpecBridge == Init /\ [][NextBridge]_vars

(***************************************************************************)
(* Properties of the startup sequence                                      *)
(***************************************************************************)
\* Whether run() has not been entered, or has returned.
Outside(n) == pc[n] \in {"constructed", "returned", "destroyed"}

\* Whether process n has constructed its NodeConfig and is still inside run().
PastNodeConfig(n) ==
    \/ pc[n] \in {"subsystems", "bindUdp", "supernodes", "netconf", "loopInit"}
    \/ InLoop(n)

\* Whether process n has passed the identity step and is still inside run().
PastIdentity(n) ==
    \/ pc[n] \in {"token", "writeToken", "nodeConfig"}
    \/ PastNodeConfig(n)

\* The steps of the startup sequence before the netconf service is started.
StartupSteps ==
    {"logger", "readSecret", "readPublic", "checkPublic", "generate", "writeSecret",
     "writePublic", "token", "writeToken", "nodeConfig", "subsystems", "bindUdp",
     "supernodes"}

\* The reason strings of the handlers of the startup's try block.
CaughtReasons == {RS_BadAlloc, RS_What, RS_UnknownInit}

\* The reason strings a failure of each startup step ends run() with.
StepReasons(step) ==
    CASE step \in {"logger", "subsystems", "supernodes"} -> CaughtReasons
      [] step \in {"checkPublic", "writePublic"} -> {RS_WritePublic}
      [] step = "writeSecret" -> {RS_WriteSecret}
      [] step = "writeToken" -> {RS_WriteToken}
      [] step = "nodeConfig" -> {RS_AnotherInstance}
      [] step = "bindUdp" -> {RS_NoUdpPort}
      [] OTHER -> {}

\* The reason strings of the startup sequence.
StartupReasons ==
    CaughtReasons \cup {RS_WritePublic, RS_WriteSecret, RS_WriteToken,
                        RS_AnotherInstance, RS_NoUdpPort}

\* C2.  Of the processes started on one home directory at most one at a time
\* has constructed its NodeConfig, so at most one is in the main loop; a
\* process that comes to construct its NodeConfig while another one holds the
\* control port returns NODE_UNRECOVERABLE_ERROR with the "another instance"
\* reason, under every interleaving of their startup steps.
C2_SingleInstance ==
    /\ [](\A a \in Nodes : \A b \in Nodes \ {a} :
            ~(PastNodeConfig(a) /\ PastNodeConfig(b)))
    /\ [][\A n \in Nodes :
            (pc[n] = "nodeConfig" /\ controlPort \notin {0, n} /\ pc'[n] # pc[n])
            => /\ pc'[n] = "returned"
               /\ reasonForTermination'[n] = NODE_UNRECOVERABLE_ERROR
               /\ reasonForTerminationStr'[n] = RS_AnotherInstance
               /\ ~running'[n]]_vars

\* C2, witness: one process is in the main loop, the other one has been
\* turned away as a second instance.
C2_Witness ==
    \E a \in Nodes : \E b \in Nodes \ {a} :
        /\ InLoop(a)
        /\ pc[b] = "returned"
        /\ reasonForTerminationStr[b] = RS_AnotherInstance
        /\ L[b] = NoLocals

\* C7.  While a process that runs alone on the home directory is past the
\* identity step, identity.secret parses, identity.public is the public form
\* of the identity in identity.secret, and that identity is the one the
\* process holds, whatever the two files held before.
C7_PublicMatchesSecret ==
    \A n \in Nodes :
        PastIdentity(n) =>
            /\ IdentityParses(identitySecret)
            /\ identity[n] = IdentityFromString(identitySecret)
            /\ identityPublic = IdentityToString(IdentityFromString(identitySecret), FALSE)

\* C7, witness: a process has found a stale identity.public beside a valid
\* identity.secret, has rewritten it and gone on.
C7_Witness ==
    \E n \in Nodes :
        /\ pc[n] = "token"
        /\ idser[n] = IdentityToString(StaleIdentity, FALSE)
        /\ identity[n] = OldIdentity
        /\ identityPublic = IdentityToString(OldIdentity, FALSE)

\* C8 as stated.  When identity.secret is present and does not parse, run()
\* ends with NODE_UNRECOVERABLE_ERROR without generating an identity, and an
\* unparseable identity.secret is never overwritten.
C8_Original ==
    [][/\ \A n \in Nodes :
            (/\ pc[n] = "readSecret"
             /\ ReadFileOk(identitySecret) /\ ~IdentityParses(identitySecret)
             /\ pc'[n] # pc[n])
            => /\ pc'[n] = "returned"
               /\ reasonForTermination'[n] = NODE_UNRECOVERABLE_ERROR
       /\ (ReadFileOk(identitySecret) /\ ~IdentityParses(identitySecret))
            => identitySecret' = identitySecret]_vars

\* C8, amended.  An identity.secret that is present and does not parse is
\* treated like an absent one: run() goes on to generate an identity, and
\* writes it over identity.secret unless the write fails, which alone ends
\* run() with NODE_UNRECOVERABLE_ERROR.
C8_GarbageIsRegenerated ==
    [][\A n \in Nodes :
         /\ (/\ pc[n] = "readSecret"
             /\ ~(ReadFileOk(identitySecret) /\ IdentityParses(identitySecret))
             /\ pc'[n] # pc[n])
            => /\ pc'[n] = "generate"
               /\ identitySecret' = identitySecret
         /\ (pc[n] = "readSecret" /\ pc'[n] = "readPublic")
            => /\ IdentityParses(identitySecret)
               /\ identity'[n] = IdentityFromString(identitySecret)
         /\ (pc[n] = "generate" /\ pc'[n] # pc[n])
            => /\ pc'[n] = "writeSecret"
               /\ identity'[n] = IdentityGenerate(n)
         /\ (pc[n] = "writeSecret" /\ pc'[n] # pc[n])
            => \/ /\ pc'[n] = "writePublic"
                  /\ identitySecret' = IdentityToString(identity[n], TRUE)
               \/ /\ pc'[n] = "returned"
                  /\ identitySecret' = identitySecret
                  /\ reasonForTermination'[n] = NODE_UNRECOVERABLE_ERROR
                  /\ reasonForTerminationStr'[n] = RS_WriteSecret]_vars

\* C8, witness: a process has read an identity.secret that does not parse
\* and has written its freshly generated identity over it.
C8_Witness ==
    \E n \in Nodes :
        /\ pc[n] = "writePublic"
        /\ identity[n] = IdentityGenerate(n)
        /\ identitySecret = IdentityToString(IdentityGenerate(n), TRUE)
        /\ identityPublic = IdentityToString(StaleIdentity, FALSE)

\* What C9 says of every startup step but the start of the netconf service:
\* its failure ends run() with NODE_UNRECOVERABLE_ERROR, the reason string of
\* that step and running false, the main loop not entered.
StartupFailuresAreFatal ==
    \A n \in Nodes :
        /\ (pc[n] \in StartupSteps /\ pc'[n] = "returned")
           => /\ reasonForTermination'[n] = NODE_UNRECOVERABLE_ERROR
              /\ reasonForTerminationStr'[n] \in StepReasons(pc[n])
              /\ ~running'[n]
              /\ L'[n] = NoLocals /\ tick'[n] = NoCalls
        /\ (pc[n] = "bindUdp" /\ FreePorts = {} /\ pc'[n] # pc[n])
           => pc'[n] = "returned"
        /\ (pc[n] = "nodeConfig" /\ ~ControlPortBinds(n) /\ pc'[n] # pc[n])
           => pc'[n] = "returned"
        /\ (/\ pc[n] # "returned" /\ pc'[n] = "returned"
            /\ reasonForTerminationStr'[n] \in StartupReasons)
           => pc[n] \in StartupSteps

\* C9 as stated.  A failure of any startup step, the start of the netconf
\* service included, ends run() with NODE_UNRECOVERABLE_ERROR, a reason
\* string of that step and running false, the main loop not entered.
C9_Original ==
    [][/\ StartupFailuresAreFatal
       /\ \A n \in Nodes :
            (/\ pc[n] = "netconf" /\ pc'[n] # pc[n]
             /\ netconfFile /\ ~netconfService'[n])
            => /\ pc'[n] = "returned"
               /\ reasonForTermination'[n] = NODE_UNRECOVERABLE_ERROR
               /\ ~running'[n]]_vars

\* C9, amended.  A failure of any startup step before the start of the
\* netconf service ends run() with NODE_UNRECOVERABLE_ERROR, the reason
\* string of that step and running false, the main loop not entered; a
\* failure to start the netconf service is logged and run() goes on to the
\* main loop.
C9_StartupFailures ==
    [][/\ StartupFailuresAreFatal
       /\ \A n \in Nodes :
            (pc[n] = "netconf" /\ pc'[n] # pc[n])
            => /\ pc'[n] = "loopInit"
               /\ running'[n]
               /\ reasonForTermination'[n] = NODE_RUNNING
               /\ netconfService'[n] => netconfFile]_vars

\* C9, witness: run() has returned because no UDP port of the window could
\* be bound, with the main loop never entered.
C9_Witness ==
    \E n \in Nodes :
        /\ pc[n] = "returned"
        /\ reasonForTermination[n] = NODE_UNRECOVERABLE_ERROR
        /\ reasonForTerminationStr[n] = RS_NoUdpPort
        /\ ~running[n]
        /\ L[n] = NoLocals

\* C10 as stated.  started never goes back to false, and running is true
\* only while run() is in the main loop: false before run(), during the
\* startup sequence and after run() has returned.
C10_Original ==
    /\ [](\A n \in Nodes : running[n] => (pc[n] = "loopInit" \/ InLoop(n)))
    /\ [][\A n \in Nodes : started[n] => started'[n]]_vars

\* C10, amended.  started never goes back to false, and running is true
\* exactly while run() executes: from the entry to run(), right after
\* started is set, the startup sequence included, until run() returns by any
\* path; it is false before run() is called and after run() has returned.
C10_RunningWhileInRun ==
    /\ [](\A n \in Nodes : /\ running[n] <=> ~(Outside(n) \/ pc[n] = "entered")
                           /\ started[n] <=> pc[n] # "constructed")
    /\ [][\A n \in Nodes : started[n] => started'[n]]_vars

\* C10, witness: run() has returned from the main loop and running is false
\* again.
C10_Witness ==
    \E n \in Nodes :
        /\ pc[n] = "returned"
        /\ reasonForTermination[n] = NODE_NORMAL_TERMINATION
        /\ started[n] /\ ~running[n]


(***************************************************************************)
(* Properties of the main loop                                             *)
(***************************************************************************)
Max0(x) == IF x > 0 THEN x ELSE 0

\* The time since terminate() was first called with run() in the main loop.
SinceTerminate(n) == clock - tcalled[n]

\* By how much the last wait of the loop has overrun its timeout.
Lateness(n) ==
    IF pc[n] = "waiting" THEN Max0(DelayDelta(n))
    ELSE IF pc[n] \in {"loopTest", "returned", "destroyed"}
    THEN Max0(L[n].lastDelayDelta)
    ELSE 0

\* C1 as stated.  Once terminate() has been called with run() in the main
\* loop, run() returns within ZT_MIN_SERVICE_LOOP_INTERVAL plus
\* ZT_SLEEP_WAKE_SETTLE_TIME, with NODE_NORMAL_TERMINATION.
C1_Original ==
    \A n \in Nodes :
        tcalled[n] >= 0 =>
            /\ SinceTerminate(n) <= ZT_MIN_SERVICE_LOOP_INTERVAL + ZT_SLEEP_WAKE_SETTLE_TIME
            /\ pc[n] \in {"returned", "destroyed"}
               => reasonForTermination[n] = NODE_NORMAL_TERMINATION

\* C1, amended.  Once terminate() has been called with run() in the main
\* loop, run() begins no further iteration: it returns after at most one
\* settle sleep and one wait of at most ZT_MIN_SERVICE_LOOP_INTERVAL, that is
\* within ZT_MIN_SERVICE_LOOP_INTERVAL plus ZT_SLEEP_WAKE_SETTLE_TIME plus
\* the time by which that wait overruns its timeout, wherever the iteration
\* stood and whether or not the signal found the loop waiting; it returns
\* NODE_NORMAL_TERMINATION, or NODE_UNRECOVERABLE_ERROR when a call outside
\* the handlers of the stages has thrown in that iteration.
C1_TerminateBound ==
    \A n \in Nodes :
        tcalled[n] >= 0 =>
            /\ terminateNow[n]
            /\ SinceTerminate(n) <= ZT_MIN_SERVICE_LOOP_INTERVAL
                                    + ZT_SLEEP_WAKE_SETTLE_TIME + Lateness(n)
            /\ pc[n] \in {"returned", "destroyed"}
               => \/ reasonForTermination[n] = NODE_NORMAL_TERMINATION
                  \/ /\ reasonForTermination[n] = NODE_UNRECOVERABLE_ERROR
                     /\ reasonForTerminationStr[n] = RS_OuterLoop

\* C1, witness: terminate() was called at the top of an iteration that
\* detected a sleep/wake, its signal found nobody waiting, and run() has
\* returned normally after the settle sleep and a full wait.
C1_Witness ==
    \E n \in Nodes :
        /\ pc[n] = "returned"
        /\ tcalled[n] >= 0
        /\ reasonForTermination[n] = NODE_NORMAL_TERMINATION
        /\ L[n].lastDelayDelta = 0
        /\ SinceTerminate(n) = ZT_MIN_SERVICE_LOOP_INTERVAL + ZT_SLEEP_WAKE_SETTLE_TIME

\* C3 as stated, in the case most favourable to it (an ordinary node, no
\* exception in the ping cycle).  In an iteration that has detected a
\* sleep/wake, by the end of the ping stage the fingerprint check and the
\* multicast check have run, pingAll is set, and HELLO has been sent to every
\* peer with an active direct path.
C3_Original ==
    \A n \in Nodes :
        (pc[n] = "clean" /\ tick[n].settled /\ ~amSupernode /\ ~tick[n].caught) =>
            /\ tick[n].fpChecked
            /\ tick[n].mcChecked
            /\ L[n].pingAll
            /\ tick[n].hello = tick[n].active

\* C4 as stated, in the case most favourable to it (an ordinary node, no
\* exception in the ping cycle).  In an iteration whose fingerprint check
\* has read a fingerprint unlike the stored one, by the end of the ping stage
\* every tap has been whacked, the multicast check has run, and HELLO has
\* been sent to every peer with an active direct path.
C4_Original ==
    \A n \in Nodes :
        (pc[n] = "clean" /\ tick[n].fpChanged /\ ~amSupernode /\ ~tick[n].caught) =>
            /\ tick[n].whacked
            /\ tick[n].mcChecked
            /\ tick[n].hello = tick[n].active

\* C5.  A step changes lastMulticastAnnounceAll if and only if it is a
\* multicast check that is due, has announceAll true and has announced a
\* non-empty map, and then to the now of that iteration; so as long as
\* nothing was announced under announceAll, every multicast check has
\* announceAll true.
C5_AnnounceAllStamp ==
    /\ [][\A n \in Nodes :
            LET stamping == /\ pc[n] = "multicast" /\ pc'[n] = "ping"
                            /\ MulticastDue(n) /\ AnnounceAll(n)
                            /\ tick'[n].announced
            IN /\ stamping => /\ L'[n].lastMulticastAnnounceAll = L[n].now
                              /\ tick'[n].toAnnounce # {}
               /\ ~stamping => L'[n].lastMulticastAnnounceAll
                                  = L[n].lastMulticastAnnounceAll]_vars
    /\ [](\A n \in Nodes :
            (InLoop(n) /\ tick[n].mcChecked /\ L[n].lastMulticastAnnounceAll = 0)
            => (tick[n].announceAll /\ ~tick[n].announced))

\* C5, witness: after a first multicast check that found nothing to
\* announce, a later one has announced under announceAll and stamped
\* lastMulticastAnnounceAll with its now.
C5_Witness ==
    \E n \in Nodes :
        /\ pc[n] = "ping"
        /\ tick[n].mcChecked /\ tick[n].announceAll /\ tick[n].announced
        /\ L[n].now > Epoch
        /\ L[n].lastMulticastAnnounceAll = L[n].now

\* C6.  A fingerprint stage whose check is not due, or reads the stored
\* fingerprint, whacks no tap, leaves the multicast and autoconfigure timers
\* and pingAll as they are and keeps the stored fingerprint; the stored
\* fingerprint changes only in a fingerprint stage, to the value it has just
\* read; taps are whacked only by a due check that reads another value.
C6_NoReactionWithoutChange ==
    [][\A n \in Nodes :
         LET unchanged == ~FingerprintDue(n)
                          \/ sysFingerprint = L[n].networkConfigurationFingerprint
         IN /\ (pc[n] = "fingerprint" /\ pc'[n] # pc[n] /\ unchanged)
               => /\ ~tick'[n].whacked /\ ~tick'[n].fpChanged
                  /\ L'[n].lastMulticastCheck = L[n].lastMulticastCheck
                  /\ L'[n].lastAutoconfigureCheck = L[n].lastAutoconfigureCheck
                  /\ L'[n].pingAll = L[n].pingAll
                  /\ L'[n].networkConfigurationFingerprint
                        = L[n].networkConfigurationFingerprint
            /\ (InLoop(n) /\ L'[n].networkConfigurationFingerprint
                                # L[n].networkConfigurationFingerprint)
               => /\ pc[n] = "fingerprint"
                  /\ L'[n].networkConfigurationFingerprint = sysFingerprint
            /\ (tick'[n].whacked /\ ~tick[n].whacked)
               => (pc[n] = "fingerprint" /\ ~unchanged)]_vars

\* C6, witness: the stored fingerprint has followed one change of the
\* host's, and a later check that reads the same value has reacted to
\* nothing.
C6_Witness ==
    \E n \in Nodes :
        /\ pc[n] = "multicast"
        /\ tick[n].fpChecked /\ ~tick[n].fpChanged /\ ~tick[n].whacked
        /\ ~tick[n].settled /\ ~L[n].pingAll
        /\ sysFingerprint = 1
        /\ L[n].networkConfigurationFingerprint = 1

(***************************************************************************)
(* Properties of reasonForTermination()                                    *)
(***************************************************************************)
\* C11 as stated.  reasonForTermination is NODE_RUNNING until run() has
\* returned; and a call of reasonForTermination() that returns a string,
\* not null, returns it after run() has returned, and it is the string
\* run() has committed with its result.
C11_Original ==
    \A n \in Nodes :
        /\ reasonForTermination[n] # NODE_RUNNING => pc[n] \in {"returned", "destroyed"}
        /\ seen[n] \notin {"none", Null}
           => /\ pc[n] \in {"returned", "destroyed"}
              /\ seen[n] = reasonForTerminationStr[n]
              /\ seen[n] # RS_None

(***************************************************************************)
(* Properties of the persisted secrets                                     *)
(***************************************************************************)
\* Whether the home directory holds an identity.secret that parses, the
\* identity.public that matches it, and an authtoken.secret.
ValidHome ==
    /\ ReadFileOk(identitySecret) /\ IdentityParses(identitySecret)
    /\ identityPublic = IdentityToString(IdentityFromString(identitySecret), FALSE)
    /\ authtokenSecret # NoToken

\* Whether process n has loaded its auth token and is still inside run().
PastToken(n) == pc[n] = "nodeConfig" \/ PastNodeConfig(n)

\* C12.  With processes started one after the other: once the home
\* directory holds a parseable identity.secret, the matching identity.public
\* and an authtoken.secret, no step of any run() changes one of the three
\* files, and every run() that has passed the identity step holds the
\* identity of identity.secret, every run() that has passed the token step
\* the token of authtoken.secret.
C12_RestartIdempotent ==
    /\ [][ValidHome => UNCHANGED <<identitySecret, identityPublic, authtokenSecret>>]_vars
    /\ [](\A n \in Nodes :
            /\ (ValidHome /\ PastIdentity(n))
               => identity[n] = IdentityFromString(identitySecret)
            /\ (ValidHome /\ PastToken(n))
               => configAuthToken[n] = authtokenSecret)

\* C12, witness: process 1 has generated an identity and a token on a fresh
\* home directory and is gone; process 2, started after it, has loaded that
\* identity and that token.
C12_Witness ==
    /\ pc[1] = "destroyed"
    /\ PastNodeConfig(2)
    /\ identity[2] = IdentityGenerate(1)
    /\ configAuthToken[2] \in TokenGenerate(1)
    /\ identitySecret = IdentityToString(IdentityGenerate(1), TRUE)
    /\ identityPublic = IdentityToString(IdentityGenerate(1), FALSE)
    /\ authtokenSecret = configAuthToken[2]

(***************************************************************************)
(* Properties of the local control client                                  *)
(***************************************************************************)
\* What every invocation of the result handler is: the next line of a
\* packet the client has authenticated, with the conversation ID of that
\* packet, which is an ID some send() has returned; the lines of a packet
\* are passed in their order.
InvocationsAreDecodedLines ==
    /\ [][calls' # calls
          => /\ hpc = "calling"
             /\ Decodes(hpkt, cKey)
             /\ hleft # <<>>
             /\ calls' = Append(calls, <<hpkt.conv, Head(hleft)>>)
             /\ \E i \in 1..Len(sends) : sends[i].ret = hpkt.conv]_vars
    /\ [][(hpc = "locked" /\ ~Decodes(hpkt, cKey)) => hpc' # "calling"]_vars
    /\ [](hpc = "calling" => hdone \o hleft = hpkt.lines)

SendReturnsIdWhenSent ==
    /\ (cpc \in {"ready", "gone"} /\ cImpl = "null")
       => /\ cTries = BindAttempts /\ cSock = "none" /\ reqs = {}
          /\ \A i \in 1..Len(sends) : sends[i].ret = 0
    /\ (cpc \in {"ready", "gone"} /\ cImpl # "null") => cTries < BindAttempts
    /\ \A i \in 1..Len(sends) :
         /\ sends[i].outcome = "sent"
            => sends[i].ret = sends[i].conv /\ sends[i].ret \in 1..MaxRand
         /\ sends[i].outcome # "sent"
            => \A r \in reqs : r.conv = sends[i].conv
                  => \E j \in 1..Len(sends) : j # i /\ sends[j].outcome = "sent"
                                               /\ sends[j].conv = r.conv

\* C14 as stated.  send() returns 0 when the client has no socket and when
\* the encoding or the sending fails, and the conversation ID, not 0, when
\* the request went out.
C14_Original ==
    /\ SendReturnsIdWhenSent
    /\ \A i \in 1..Len(sends) :
         sends[i].outcome \in {"noimpl", "lost", "encodeThrows", "sendThrows"}
         => sends[i].ret = 0

\* C14, amended.  send() returns 0 when the client has no socket and when
\* the encoding or the sending throws, and the conversation ID, not 0, in
\* every other case: when the request went out, and also when the socket
\* has failed to send it without throwing.
C14_ZeroOnlyOnException ==
    /\ SendReturnsIdWhenSent
    /\ \A i \in 1..Len(sends) :
         sends[i].ret = 0 <=> sends[i].outcome \in {"noimpl", "encodeThrows", "sendThrows"}

\* C14, witness: a send() whose encoding threw has returned 0, and the next
\* one, for which rand() returned 0, has sent its request and returned 1.
C14_Witness ==
    /\ Len(sends) = 2
    /\ sends[1].outcome = "encodeThrows" /\ sends[1].ret = 0
    /\ sends[2].outcome = "sent" /\ sends[2].ret = 1
    /\ reqs = {[conv |-> 1, key |-> cKey]}

\* C15 as stated.  Once the destruction of the client has begun the result
\* handler is never invoked, and the receive path never uses the impl, its
\* key or its lock after the destructor has freed them.
C15_Original == ~late /\ ~uaf

(***************************************************************************)
(* Properties of the netconf bridge                                        *)
(***************************************************************************)
\* Whether the message the handler was called with is a netconf-response
\* whose network and peer address resolve.
Resolves ==
    /\ renv
    /\ {"type", "requestId", "nwid", "peer"} \subseteq DOMAIN msg
    /\ msg["type"] = "netconf-response"
    /\ Strtoull16(msg["nwid"]) \in Networks
    /\ AddressOf(msg["peer"]) # 0

\* C16.  When the handler has returned it has sent at most one packet for
\* the message.  For a netconf-response whose network and peer resolve: with
\* an error key, one VERB_ERROR for VERB_NETWORK_CONFIG_REQUEST with the
\* request id, ERROR_NOT_FOUND exactly when the error is NOT_FOUND and
\* ERROR_INVALID_REQUEST otherwise, and the network id; without an error key
\* and with a netconf key, one VERB_OK with the request id, the network id,
\* the length and the payload exactly when the payload is shorter than 2048
\* bytes.  For every other message, no packet.
C16_AtMostOnePacket ==
    bpc = "returned" =>
      /\ Len(outp) <= 1
      /\ (Resolves /\ Contains(msg, "error")) =>
           /\ Len(outp) = 1
           /\ outp[1].verb = "VERB_ERROR"
           /\ outp[1].inReVerb = "VERB_NETWORK_CONFIG_REQUEST"
           /\ outp[1].inRePacketId = Strtoull16(msg["requestId"])
           /\ outp[1].errCode \in {"ERROR_NOT_FOUND", "ERROR_INVALID_REQUEST"}
           /\ outp[1].errCode = "ERROR_NOT_FOUND" <=> msg["error"] = "NOT_FOUND"
           /\ outp[1].nwid = Strtoull16(msg["nwid"])
           /\ outp[1].dest = AddressOf(msg["peer"])
      /\ (Resolves /\ ~Contains(msg, "error") /\ Contains(msg, "netconf")) =>
           /\ Len(outp) = 1 <=> Length(msg["netconf"]) < 2048
           /\ Len(outp) = 1 =>
                /\ outp[1].verb = "VERB_OK"
                /\ outp[1].inReVerb = "VERB_NETWORK_CONFIG_REQUEST"
                /\ outp[1].inRePacketId = Strtoull16(msg["requestId"])
                /\ outp[1].nwid = Strtoull16(msg["nwid"])
                /\ outp[1].length = Length(msg["netconf"])
                /\ outp[1].payload = msg["netconf"]
                /\ outp[1].dest = AddressOf(msg["peer"])
      /\ ~(Resolves /\ (Contains(msg, "error") \/ Contains(msg, "netconf"))) => outp = <<>>

\* C16, witness: the answer to a message with a payload of 2047 bytes, the
\* longest that passes.
C16_Witness ==
    /\ bpc = "returned"
    /\ Resolves /\ ~Contains(msg, "error") /\ Contains(msg, "netconf")
    /\ msg["requestId"] = "1a"
    /\ Len(outp) = 1 /\ outp[1].verb = "VERB_OK" /\ outp[1].inRePacketId = 26
    /\ outp[1].length = 2047

(***************************************************************************)
(* Properties of the scan of the UDP port window                           *)
(***************************************************************************)
\* C17.  The scan binds the lowest port of the window that can be bound and
\* no other port, and run() goes on; when no port of the window can be
\* bound, run() returns NODE_UNRECOVERABLE_ERROR with the reason "could not
\* bind any local UDP ports", and the main loop is not entered.
C17_LowestPortOrFatal ==
    [][\A n \in Nodes :
         (pc[n] = "bindUdp" /\ pc'[n] # pc[n])
         => LET free == {p \in 0..(PortWindow - 1) : p \notin udpTaken}
            IN IF free # {}
               THEN /\ boundPort'[n] \in free
                    /\ \A q \in free : boundPort'[n] <= q
                    /\ udpTaken' = udpTaken \cup {boundPort'[n]}
                    /\ pc'[n] = "supernodes"
                    /\ running'[n]
               ELSE /\ pc'[n] = "returned"
                    /\ reasonForTermination'[n] = NODE_UNRECOVERABLE_ERROR
                    /\ reasonForTerminationStr'[n] = RS_NoUdpPort
                    /\ udpTaken' = udpTaken
                    /\ ~running'[n]
                    /\ L'[n] = NoLocals /\ tick'[n] = NoCalls]_vars

\* C17, witness: process 1 has bound the second port of the window, the
\* first one being taken by somebody else, and is in its main loop.
C17_Witness ==
    /\ boundPort[1] = 1
    /\ 0 \in udpTaken
    /\ boundPort[2] # 0
    /\ InLoop(1)

(***************************************************************************)
(* Properties of the exceptions of a tick                                  *)
(***************************************************************************)
\* What C18 says of the multicast check, the ping cycle and the timer-task
\* wait: an exception of the stage does not end run(), and the next stage
\* follows; after the last stage the loop goes on to its test.
CaughtStagesGoOn ==
    \A n \in Nodes :
        /\ (pc[n] = "multicast" /\ pc'[n] # pc[n]) => (pc'[n] = "ping" /\ running'[n])
        /\ (pc[n] = "ping" /\ pc'[n] # pc[n]) => (pc'[n] = "clean" /\ running'[n])
        /\ (pc[n] = "timerTasks" /\ pc'[n] # pc[n])
           => (pc'[n] \in {"waiting", "loopTest"} /\ running'[n])
        /\ (pc[n] \in {"sleepWake", "settling", "waiting"} /\ pc'[n] # pc[n])
           => (InLoop(n)' /\ running'[n])

C19_PingRecipients ==
    /\ [](\A n \in Nodes :
            (pc[n] = "clean" /\ tick[n].pingRan) =>
               LET older == {pt[1] : pt \in {x \in tick[n].sns :
                                 L[n].now - x[2] > ZT_PEER_DIRECT_PING_DELAY}}
               IN /\ amSupernode => /\ tick[n].hello \subseteq older
                                    /\ tick[n].opener = {}
                                    /\ ~tick[n].caught => tick[n].hello = older
                  /\ (~amSupernode /\ ~tick[n].caught /\ tick[n].pingAll)
                     => /\ tick[n].hello = tick[n].active
                        /\ tick[n].opener = {}
                  /\ (~amSupernode /\ ~tick[n].caught /\ ~tick[n].pingAll)
                     => /\ tick[n].hello = tick[n].needPing
                        /\ tick[n].opener = tick[n].needFirewallOpener)
    /\ [][\A n \in Nodes :
            (pc[n] = "ping" /\ tick'[n].pingRan)
            => /\ L[n].now - L[n].lastPingCheck >= ZT_PING_CHECK_DELAY
               /\ L'[n].lastPingCheck = L[n].now]_vars

\* C19, witness: a supernode with pingAll set has run the ping cycle with
\* two supernode peers, and has sent HELLO to the one whose last direct send
\* is older than ZT_PEER_DIRECT_PING_DELAY, not to the one whose last direct
\* send is exactly that old, though both have an active direct path.
C19_Witness ==
    /\ amSupernode
    /\ pc[1] = "clean" /\ tick[1].pingRan /\ tick[1].pingAll /\ ~tick[1].caught
    /\ tick[1].active = {1, 2}
    /\ tick[1].sns = {<<1, L[1].now - ZT_PEER_DIRECT_PING_DELAY>>,
                      <<2, L[1].now - ZT_PEER_DIRECT_PING_DELAY - 1>>}
    /\ tick[1].hello = {2}
    /\ L[1].lastPingCheck = L[1].now

(***************************************************************************)
(* Properties of two processes that start on one fresh home directory      *)
(***************************************************************************)
\* C20 as stated.  Of two processes started at once on a home directory
\* without identity.secret, the one that has completed its initialization
\* runs with the identity that identity.secret holds, and identity.public
\* holds the public part of that identity.
C20_Original ==
    \A n \in Nodes :
        (pc[n] = "loopInit" \/ InLoop(n))
        => /\ identitySecret = IdentityToString(identity[n], TRUE)
           /\ identityPublic = IdentityToString(identity[n], FALSE)

(***************************************************************************)
(* Properties of the sleep/wake detection                                  *)
(***************************************************************************)
\* C21 as stated.  The sleep/wake detection reacts to one value of
\* lastDelayDelta once: when it reacts, the wait stage has computed
\* lastDelayDelta anew since its last reaction.
C21_Original ==
    [][\A n \in Nodes :
         (pc[n] = "sleepWake" /\ SleepWakeDetected(n) /\ pc'[n] # pc[n])
         => ~L[n].deltaActed]_vars

(***************************************************************************)
(* Properties of the sends of one ping cycle                               *)
(***************************************************************************)
\* C22 as stated.  After a ping cycle that has collected its peers, the
\* send has been called for every peer the cycle has selected, whether or
\* not a send to another peer has thrown: on a supernode sendHELLO for every
\* supernode peer whose last direct send is older than
\* ZT_PEER_DIRECT_PING_DELAY, on an ordinary node sendHELLO for every peer to
\* ping and sendFirewallOpener for every peer that needs one.
C22_Original ==
    \A n \in Nodes :
        (pc[n] = "clean" /\ tick[n].pingRan) =>
            /\ amSupernode =>
                 \A x \in tick[n].sns :
                     DirectPingDue(L[n].now, x[2]) => x[1] \in tick[n].hello
            /\ (~amSupernode /\ ~tick[n].caught) =>
                 /\ NeedPing(tick[n].pingAll, tick[n].active, tick[n].needPing)
                        \subseteq tick[n].hello
                 /\ NeedFirewallOpener(tick[n].pingAll, tick[n].needFirewallOpener)
                        \subseteq tick[n].opener

====
